---------------------------- MODULE Spec2Model ----------------------------
(***************************************************************************)
(* Model of the walk-forward backtester (sim_metodos.py) and of the prize  *)
(* simulator (sim_reintegros.py) of LoteriaProbabilidad.                   *)
(*                                                                         *)
(* Python floats are modelled by exact rationals <<num, den>> (den > 0,    *)
(* lowest terms); a dict number -> score is a function on 1..49; a list is *)
(* a sequence.  random.sample is a nondeterministic choice, so a selector  *)
(* is an operator that returns the SET of lists it may return (a singleton *)
(* when it is deterministic).                                              *)
(***************************************************************************)
EXTENDS Integers, Sequences, FiniteSets, TLC

VARIABLES
  archivo,    \* the CSV file read by cargar: its rows, newest first
  pc,         \* position of the running script
  sorteos,    \* the loaded history (oldest first)
  metodo,     \* backtest: name of metodo_fn / simulator: name of estrategia_fn
  n_eval,     \* backtest n / simulator n_sims
  reps,       \* backtest reps
  i,          \* loop index of the walk-forward loop (a Python int, may be < 0)
  total_ac,   \* backtest histogram: total_ac[k + 1] is Python's total_ac[k]
  paso,       \* what the last loop iteration did (its s, h, pred, mejor, ...)
  llamadas,   \* number of calls of metodo_fn / estrategia_fn made so far
  gastado,    \* simulator: accumulated cost
  ganado,     \* simulator: accumulated winnings
  conteo,     \* simulator: conteo[c] is Python's conteo[Categorias[c]]
  call,       \* a direct call of one function: its name and arguments
  ret,        \* what that call returned ("none" before it returns)
  pendientes, \* steps of the walk-forward loop no worker has taken yet
  obreros,    \* per worker: the step it holds and the mejor it computed
  chosen,     \* greedy_combos: the list chosen
  sc          \* greedy_combos: the t-subsets still to cover

\* the variables of the worker pool and of greedy_combos
otros == <<pendientes, obreros, chosen, sc>>

vars == <<archivo, pc, sorteos, metodo, n_eval, reps, i, total_ac, paso,
          llamadas, gastado, ganado, conteo, call, ret, otros>>

(***************************************************************************)
(* Bounds of the model.                                                    *)
(***************************************************************************)
MaxLen     == 31   \* longest history
MaxStride  == 2    \* history patterns: strides 1..MaxStride through the pool
NumSamples == 2    \* outcomes of random.sample that are enumerated
MaxFile    == 12   \* most rows of the CSV file of a script run
MaxEval    == 3    \* largest n / n_sims
MaxReps    == 2    \* largest reps
MaxBoletos == 2    \* largest portfolio of a ticket strategy
MaxKeys    == 3    \* keys of a map given to norm
NumObreros == 2    \* workers of the pool
MaxDatos   == 3    \* longest list of parsed draws handed to a save

(***************************************************************************)
(* Program constants.                                                      *)
(***************************************************************************)
maxNum   == 49     \* range(1,50)
suma_min == 100
suma_max == 200

Nums == 1..maxNum

(***************************************************************************)
(* Helpers: Python built-ins.                                              *)
(***************************************************************************)
\* Evaluate a map once (the value is f itself).
Tab(f) == IF f = f THEN f ELSE f

\* Evaluate a first, then b (the value is b).
Luego(a, b) == IF a = a THEN b ELSE b

Max2(a, b) == IF a >= b THEN a ELSE b
Min2(a, b) == IF a <= b THEN a ELSE b
Abs(a) == IF a < 0 THEN -a ELSE a

RECURSIVE GCD(_, _)
GCD(a, b) == IF b = 0 THEN a ELSE GCD(b, a % b)
LCM(a, b) == (a \div GCD(a, b)) * b

RECURSIVE SumSeq(_)
SumSeq(s) == IF s = << >> THEN 0 ELSE Head(s) + SumSeq(Tail(s))

Range(s) == {s[p] : p \in DOMAIN s}

\* The list with the elements f[1], ..., f[Len(f)], as an explicit tuple.
Lista(f) == SubSeq(f, 1, Len(f))

\* sorted(S) for a collection of distinct integers
SortedSet(S) ==
  Lista([p \in 1..Cardinality(S) |->
     CHOOSE a \in S : Cardinality({b \in S : b < a}) = p - 1])

\* sorted(list) for a list of integers (duplicates kept)
Sorted(s) ==
  LET rank(p) == Cardinality({q \in DOMAIN s :
                     s[q] < s[p] \/ (s[q] = s[p] /\ q < p)})
  IN  Lista([r \in 1..Len(s) |-> s[CHOOSE p \in DOMAIN s : rank(p) = r - 1]])

\* lst[:n]
Take(s, n) == SubSeq(s, 1, Min2(Max2(n, 0), Len(s)))

\* lst[-n:] for n > 0
LastN(s, n) == SubSeq(s, Max2(Len(s) - n, 0) + 1, Len(s))

\* lst[:k] for any Python int k (a negative k counts from the end)
PySliceTo(s, k) ==
  IF k >= 0 THEN Take(s, k) ELSE Take(s, Max2(Len(s) + k, 0))

\* lst[k]: the index that is read, 0 when Python raises IndexError
PyIndex(s, k) ==
  IF k >= 0 THEN (IF k < Len(s) THEN k + 1 ELSE 0)
  ELSE (IF Len(s) + k >= 0 THEN Len(s) + k + 1 ELSE 0)

\* sorted(range(1,50), key=...) for an integer key: stable, ascending key
Ordenar(rank) ==
  Lista([p \in 1..maxNum |-> CHOOSE a \in Nums : rank[a] = p - 1])

SortedByKey(key) ==
  Luego(key, Ordenar(Tab([a \in Nums |-> Cardinality({b \in Nums :
                key[b] < key[a] \/ (key[b] = key[a] /\ b < a)})])))

(***************************************************************************)
(* Exact rationals for the float scores.                                   *)
(***************************************************************************)
Reducir(n, d, g) ==
  IF d < 0 THEN <<-(n \div g), -(d \div g)>> ELSE <<n \div g, d \div g>>
Rat(n, d) == Reducir(n, d, GCD(Abs(n), Abs(d)))
RInt(n) == <<n, 1>>
SumarCon(a, b, l) == Rat(a[1] * (l \div a[2]) + b[1] * (l \div b[2]), l)
RAdd(a, b) == SumarCon(a, b, LCM(a[2], b[2]))
RSub(a, b) == RAdd(a, <<-b[1], b[2]>>)
Producto(x, y) == <<x[1] * y[1], x[2] * y[2]>>
RMul(a, b) == Producto(Rat(a[1], b[2]), Rat(b[1], a[2]))
RDiv(a, b) == RMul(a, Rat(b[2], b[1]))
MenorCon(a, b, l) == a[1] * (l \div a[2]) <= b[1] * (l \div b[2])
RLeq(a, b) == MenorCon(a, b, LCM(a[2], b[2]))
RMax(a, b) == IF RLeq(b, a) THEN a ELSE b
RMinOf(S) == CHOOSE a \in S : \A b \in S : RLeq(a, b)
RMaxOf(S) == CHOOSE a \in S : \A b \in S : RLeq(b, a)

\* the least common denominator of score[lo], ..., score[hi]
RECURSIVE LCMOf(_, _, _)
LCMOf(score, lo, hi) ==
  IF lo = hi THEN score[lo][2]
  ELSE LCM(LCMOf(score, lo, (lo + hi) \div 2),
           LCMOf(score, ((lo + hi) \div 2) + 1, hi))

\* an integer key that orders the numbers as the rational score does
Escalar(score, l) ==
  Luego(l, Tab([a \in Nums |-> score[a][1] * (l \div score[a][2])]))
IntKey(score) == Luego(score, Escalar(score, LCMOf(score, 1, maxNum)))

\* key=lambda x:-d[x]
Neg(d) == Luego(d, Tab([a \in Nums |-> -d[a]]))

(***************************************************************************)
(* Scoring primitives and selectors, sim_metodos.py.  hist is a sequence   *)
(* of draws [fecha, numeros, reintegro]; every selector returns the set of *)
(* sorted lists it may return.                                             *)
(***************************************************************************)
\* frec=defaultdict(int); for s in hist: for x in s['numeros']: frec[x]+=1
Frec(hist) ==
  Tab([a \in Nums |-> Cardinality({p \in (DOMAIN hist) \X (1..6) :
                         hist[p[1]].numeros[p[2]] = a})])

\* Ultimo with ua.get(x,0)
Ultimo_cero(is) ==
  IF is = {} THEN 0 ELSE (CHOOSE p \in is : \A q \in is : q <= p) - 1

\* the last index of a set of indices, as ua.get(x,-1)
Ultimo(is) ==
  IF is = {} THEN -1 ELSE (CHOOSE p \in is : \A q \in is : q <= p) - 1

\* ua={}; for i,s in enumerate(hist): for x in s['numeros']: ua[x]=i
UltimaAparicion(hist) ==
  Tab([a \in Nums |->
        Ultimo({p \in DOMAIN hist : a \in Range(hist[p].numeros)})])

\* sorted(sorted(range(1,50), key=...)[:n])
TopN(key, n) == SortedSet(Range(Take(SortedByKey(key), n)))

\* random.sample(range(1,50),6): the outcomes that are enumerated
RandomSamples ==
  {{k, k + 9, k + 18, k + 27, k + 36, k + 43} : k \in 1..NumSamples}

metodo_aleatorio(hist) == {SortedSet(S) : S \in RandomSamples}

metodo_frecuencias(hist, n) == {TopN(Neg(Frec(hist)), n)}

metodo_frios(hist, n) == {TopN(Frec(hist), n)}

\* key=lambda x:-(total-1-ua.get(x,-1))
Atraso(ua, total) == Luego(ua, Tab([a \in Nums |-> -(total - 1 - ua[a])]))

\* metodo_debidos with the sign of the key lost: the least overdue first
metodo_debidos_reciente(hist, n) ==
  {TopN(Neg(Atraso(UltimaAparicion(hist), Len(hist))), n)}

metodo_debidos(hist, n) == {TopN(Atraso(UltimaAparicion(hist), Len(hist)), n)}

\* recent=hist[-ventana:] if len(hist)>=ventana else hist
Recientes(hist, ventana) ==
  IF Len(hist) >= ventana THEN LastN(hist, ventana) ELSE hist

metodo_calientes(hist, ventana, n) ==
  {TopN(Neg(Frec(Recientes(hist, ventana))), n)}

\* Reescalar without the subtraction of the minimum: v/r
Reescalar_sin_minimo(d, mn, r) ==
  Luego(<<mn, r>>, Tab([k \in DOMAIN d |-> RDiv(d[k], r)]))

\* {k:(v-mn)/r for k,v in d.items()}
Reescalar(d, mn, r) ==
  Luego(<<mn, r>>, Tab([k \in DOMAIN d |-> RDiv(RSub(d[k], mn), r)]))

\* def norm(d): min-max rescale with the 0.001 floor on the range
norm(d) ==
  Luego(d, Reescalar(d, RMinOf(Range(d)),
                     RMax(RSub(RMaxOf(Range(d)), RMinOf(Range(d))),
                          Rat(1, 1000))))

\* {x:(frec.get(x,0)-fe)/max(fe,1) for x in range(1,50)}
Desvio(frec, fe) ==
  Luego(<<frec, fe>>, Tab([a \in Nums |->
          RDiv(RSub(RInt(frec[a]), fe), RMax(fe, RInt(1)))]))

\* vc=max(min(ventana,total//3),5)
VentanaCorta(hist, ventana) == Max2(Min2(ventana, Len(hist) \div 3), 5)

\* (since-t)/max(t,1)
Exceso(since, t) == RDiv(RSub(RInt(since), t), RMax(t, RInt(1)))

\* sd: t=total/max(frec.get(x,1),1); since=total-1-ua.get(x,-1)
Retraso(frec, ua, total) ==
  Luego(<<frec, ua>>, Tab([a \in Nums |->
          Exceso(total - 1 - ua[a], Rat(total, Max2(frec[a], 1)))]))

\* fin={x:0.15*nf[x]+0.70*nc[x]+0.15*nd[x] for x in range(1,50)}
Ponderar(nf, nc, nd) ==
  Luego(<<nf, nc, nd>>, Tab([a \in Nums |->
          RAdd(RAdd(RMul(Rat(15, 100), nf[a]), RMul(Rat(70, 100), nc[a])),
               RMul(Rat(15, 100), nd[a]))]))

\* fin of metodo_mixto_15_70_15 (history of at least 10 draws)
MixtoFin(hist, ventana) ==
  Ponderar(norm(Desvio(Frec(hist), Rat(Len(hist) * 6, 49))),
           norm(Desvio(Frec(LastN(hist, VentanaCorta(hist, ventana))),
                       Rat(VentanaCorta(hist, ventana) * 6, 49))),
           norm(Retraso(Frec(hist), UltimaAparicion(hist), Len(hist))))

metodo_mixto_15_70_15(hist, ventana, n) ==
  IF Len(hist) < 10 THEN metodo_aleatorio(hist)
  ELSE {TopN(Neg(IntKey(MixtoFin(hist, ventana))), n)}

\* The only list a deterministic branch of a selector returns.
Solo(S) == CHOOSE l \in S : TRUE

\* a list without its first occurrence of a (list.remove)
Quitar(s, p) == SubSeq(s, 1, p - 1) \o SubSeq(s, p + 1, Len(s))
Remove(s, a) ==
  Quitar(s, CHOOSE q \in DOMAIN s : s[q] = a /\ \A r \in 1..(q - 1) : s[r] # a)

MaxOfSeq(s) == CHOOSE a \in Range(s) : \A b \in Range(s) : b <= a
MinOfSeq(s) == CHOOSE a \in Range(s) : \A b \in Range(s) : a <= b

\* the ventanas of score_multiventana: (5,0.50),(12,0.30),(30,0.20)
ventanas == <<<<5, <<1, 2>>>>, <<12, <<3, 10>>>>, <<30, <<1, 5>>>>>>

\* peso*(frec[x]/max(fe,0.001)) for x in range(1,50)
Termino(frec, fe, peso) ==
  Luego(<<frec, fe>>, Tab([a \in Nums |->
          RMul(peso, RDiv(RInt(frec[a]), RMax(fe, Rat(1, 1000))))]))

\* the contribution of window w: recent, fe, frec
Ventana(hist, w) ==
  Termino(Frec(Recientes(hist, ventanas[w][1])),
          Rat(Len(Recientes(hist, ventanas[w][1])) * 6, 49),
          ventanas[w][2])

\* score[x]+=... over the three windows
Acumular(t1, t2, t3) ==
  Luego(<<t1, t2, t3>>,
        Tab([a \in Nums |-> RAdd(RAdd(t1[a], t2[a]), t3[a])]))

score_multiventana(hist) ==
  Acumular(Ventana(hist, 1), Ventana(hist, 2), Ventana(hist, 3))

\* {x:frec_corta[x]/max(frec_larga[x]*ratio_larga,0.001) for x in range(1,50)}
Aceleracion(frec_corta, frec_larga, ratio_larga) ==
  Luego(<<frec_corta, frec_larga>>, Tab([a \in Nums |->
          RDiv(RInt(frec_corta[a]),
               RMax(RMul(RInt(frec_larga[a]), ratio_larga), Rat(1, 1000)))]))

score_aceleracion(hist, ventana_corta, ventana_larga) ==
  IF Len(hist) < ventana_larga THEN [a \in Nums |-> RInt(0)]
  ELSE Aceleracion(Frec(LastN(hist, ventana_corta)),
                   Frec(LastN(hist, ventana_larga)),
                   Rat(ventana_corta, ventana_larga))

\* the candidates without the test x<peor / x>peor
Sustitutos_sin_lado(combo, hist, alta, peor) ==
  SelectSeq(SortedByKey(Neg(Frec(hist))), LAMBDA a : a \notin Range(combo))

\* candidatos=[x for x in sorted(range(1,50),key=lambda x:-frec[x])
\*             if x not in combo and (x<peor if alta else x>peor)]
Sustitutos(combo, hist, alta, peor) ==
  SelectSeq(SortedByKey(Neg(Frec(hist))), LAMBDA a :
              /\ a \notin Range(combo)
              /\ IF alta THEN a < peor ELSE a > peor)

\* Cambiar without combo.remove(peor)
Cambiar_sin_quitar(combo, peor, candidatos) ==
  IF candidatos # << >>
  THEN Sorted(Append(combo, candidatos[1]))
  ELSE Sorted(combo)

\* combo.remove(peor); combo.append(candidatos[0]) when there is a candidate
Cambiar(combo, peor, candidatos) ==
  IF candidatos # << >>
  THEN Sorted(Append(Remove(combo, peor), candidatos[1]))
  ELSE Sorted(combo)

\* the swap of a combo whose sum is out of [suma_min, suma_max]
Ajustar(combo, hist, alta, peor) ==
  Cambiar(combo, peor, Sustitutos(combo, hist, alta, peor))

\* refinar_combinacion(combo, hist, n=6, maxNum=49); combo is a list
refinar_combinacion(combo, hist) ==
  Luego(combo,
    IF Len(hist) < 10 THEN Sorted(combo)
    ELSE IF suma_min <= SumSeq(combo) /\ SumSeq(combo) <= suma_max
    THEN Sorted(combo)
    ELSE IF SumSeq(combo) > suma_max
    THEN Ajustar(combo, hist, TRUE, MaxOfSeq(combo))
    ELSE Ajustar(combo, hist, FALSE, MinOfSeq(combo)))

\* the list of the caller without combo=list(combo): remove and append act
\* on it
ArgumentoTrasRefinar_sin_copia(combo, hist) ==
  IF Len(hist) < 10 THEN combo
  ELSE IF suma_min <= SumSeq(combo) /\ SumSeq(combo) <= suma_max THEN combo
  ELSE IF Sustitutos(combo, hist, SumSeq(combo) > suma_max,
                     IF SumSeq(combo) > suma_max THEN MaxOfSeq(combo)
                     ELSE MinOfSeq(combo)) = << >> THEN combo
  ELSE Append(Remove(combo, IF SumSeq(combo) > suma_max THEN MaxOfSeq(combo)
                            ELSE MinOfSeq(combo)),
              Sustitutos(combo, hist, SumSeq(combo) > suma_max,
                         IF SumSeq(combo) > suma_max THEN MaxOfSeq(combo)
                         ELSE MinOfSeq(combo))[1])

\* the list the caller passed as combo, after the call: sorted(combo) builds
\* a new list and combo=list(combo) rebinds the name to a copy before
\* combo.remove and combo.append
ArgumentoTrasRefinar(combo, hist) == combo

\* Llenar without the test "x not in sel"
RECURSIVE Llenar_repetidos(_, _, _)
Llenar_repetidos(sel, lst, tope) ==
  IF lst = << >> \/ Len(sel) >= tope THEN sel
  ELSE Llenar_repetidos(Append(sel, Head(lst)), Tail(lst), tope)

\* for x in lst: if len(sel)<tope and x not in sel: sel.append(x)
RECURSIVE Llenar(_, _, _)
Llenar(sel, lst, tope) ==
  IF lst = << >> \/ Len(sel) >= tope THEN sel
  ELSE Llenar(IF Head(lst) \notin Range(sel)
              THEN Append(sel, Head(lst)) ELSE sel,
              Tail(lst), tope)

metodo_rachas_mix_v2(hist, n) ==
  IF Len(hist) < 10 THEN metodo_aleatorio(hist)
  ELSE {Sorted(Take(Llenar(Llenar(Llenar(<< >>, cal, 3), mix, 5), frec, 6), n)) :
          cal \in metodo_calientes(hist, 12, 15),
          mix \in metodo_mixto_15_70_15(hist, 12, 15),
          frec \in metodo_frecuencias(hist, 15)}

\* rank of x in top (from 0), tope when x is not in top
Posicion(top, tope) ==
  Tab([a \in Nums |-> IF a \in Range(top)
                      THEN (CHOOSE p \in DOMAIN top : top[p] = a) - 1
                      ELSE tope])

\* votos after: for rank,x in enumerate(top): votos[x]+=(tope-rank)
SumarRango(votos, pos, tope) ==
  Luego(<<votos, pos>>, Tab([a \in Nums |-> votos[a] + (tope - pos[a])]))
VotosRango(votos, top, tope) == SumarRango(votos, Posicion(top, tope), tope)

metodo_ensemble_v2(hist, n) ==
  IF Len(hist) < 10 THEN metodo_aleatorio(hist)
  ELSE {TopN(Neg(VotosRango(VotosRango(VotosRango([a \in Nums |-> 0],
                                                  mix, 15), cal, 15),
                            frec, 15)), n) :
          mix \in metodo_mixto_15_70_15(hist, 12, 15),
          cal \in metodo_calientes(hist, 12, 15),
          frec \in metodo_frecuencias(hist, 15)}

\* conteo={x:sum(1 for s in sets if x in s) for x in range(1,50)}
Conteo(sets) ==
  Luego(sets,
        Tab([a \in Nums |-> Cardinality({p \in DOMAIN sets : a \in sets[p]})]))

metodo_alta_confianza_v2(hist, n) ==
  IF Len(hist) < 10 THEN metodo_aleatorio(hist)
  ELSE {Sorted(Llenar(<< >>,
          SortedByKey(Neg(Conteo(<<Range(mix), Range(cal), Range(frec)>>))),
          n)) :
          mix \in metodo_mixto_15_70_15(hist, 12, 12),
          cal \in metodo_calientes(hist, 12, 12),
          frec \in metodo_frecuencias(hist, 12)}

\* metodo_rachas_mix (v1): sel is a set filled from three orderings
Mezclar(orden_cal, orden_fri, orden_frec) ==
  SortedSet(Range(Llenar(Llenar(Llenar(<< >>, orden_cal, 3), orden_fri, 5),
                         orden_frec, 6)))

MezclaRachas(fc, frec) ==
  Luego(<<fc, frec>>,
        Mezclar(SortedByKey(Neg(fc)), SortedByKey(fc), SortedByKey(Neg(frec))))

metodo_rachas_mix(hist, ventana, n) ==
  IF Len(hist) < ventana THEN metodo_aleatorio(hist)
  ELSE {MezclaRachas(Frec(LastN(hist, ventana)), Frec(hist))}

\* for fn in criterios: for x in top: votos[x]+=1   (every top is called
\* with n=15; metodo_rachas_mix takes n and does not use it)
metodo_ensemble(hist, n) ==
  IF Len(hist) < 10 THEN metodo_aleatorio(hist)
  ELSE {TopN(Neg(Conteo(<<Range(f), Range(c), Range(d), Range(r),
                          Range(m)>>)), n) :
          f \in metodo_frecuencias(hist, 15),
          c \in metodo_calientes(hist, 12, 15),
          d \in metodo_debidos(hist, 15),
          r \in metodo_rachas_mix(hist, 12, 15),
          m \in metodo_mixto_15_70_15(hist, 12, 15)}

\* selec=[x for x in candidatos if conteo[x]>=umbral]
Calificados(candidatos, cnt, umbral) ==
  LET Cumple(x) == cnt[x] >= umbral IN SelectSeq(candidatos, Cumple)

\* if len(selec)<n: selec+=[x for x in candidatos if x not in selec]
Completar(selec, candidatos, n) ==
  LET Falta(x) == x \notin Range(selec)
  IN  IF Len(selec) < n THEN selec \o SelectSeq(candidatos, Falta) ELSE selec

Elegir(cnt, candidatos, n, umbral) ==
  Luego(<<cnt, candidatos>>,
        Sorted(Take(Completar(Calificados(candidatos, cnt, umbral),
                              candidatos, n), n)))

\* ElegirPorConteo with the sign of the key lost: least participation first
ElegirPorConteo_ascendente(cnt, n, umbral) ==
  Luego(cnt, Elegir(cnt, SortedByKey(cnt), n, umbral))

ElegirPorConteo(cnt, n, umbral) ==
  Luego(cnt, Elegir(cnt, SortedByKey(Neg(cnt)), n, umbral))

\* the five candidate sets of metodo_alta_confianza, k=12
ConjuntosAC(hist) ==
  {<<Range(f), Range(c), Range(d), Range(r), Range(m)>> :
     f \in metodo_frecuencias(hist, 12),
     c \in metodo_calientes(hist, 12, 12),
     d \in metodo_debidos(hist, 12),
     r \in metodo_rachas_mix(hist, 12, 6),
     m \in metodo_mixto_15_70_15(hist, 12, 12)}

metodo_alta_confianza(hist, n, umbral) ==
  IF Len(hist) < 10 THEN metodo_aleatorio(hist)
  ELSE {ElegirPorConteo(Conteo(sets), n, umbral) : sets \in ConjuntosAC(hist)}

\* max(d.values()) or 1
OrUno(m) == IF m[1] = 0 THEN RInt(1) ELSE m
MaxOr1(d) == OrUno(RMaxOf(Range(d)))

\* 0.70*(mv[x]/norm_mv)+0.30*(ac[x]/norm_ac) for x in range(1,50)
Momentum(mv, ac, norm_mv, norm_ac) ==
  Luego(<<norm_mv, norm_ac>>, Tab([a \in Nums |->
          RAdd(RMul(Rat(70, 100), RDiv(mv[a], norm_mv)),
               RMul(Rat(30, 100), RDiv(ac[a], norm_ac)))]))

MomentumDe(mv, ac) ==
  Luego(<<mv, ac>>, Momentum(mv, ac, MaxOr1(mv), MaxOr1(ac)))

\* score of metodo_rachas_mix_v3
ScoreMomentum(hist) ==
  MomentumDe(score_multiventana(hist), score_aceleracion(hist, 8, 30))

\* metodo_rachas_mix_v3 with the threshold of metodo_rachas_mix_v2
metodo_rachas_mix_v3_umbral10(hist, n) ==
  IF Len(hist) < 10 THEN metodo_rachas_mix_v2(hist, n)
  ELSE {refinar_combinacion(Take(SortedByKey(Neg(score)), n), hist) :
          score \in {IntKey(ScoreMomentum(hist))}}

metodo_rachas_mix_v3(hist, n) ==
  IF Len(hist) < 30 THEN metodo_rachas_mix_v2(hist, n)
  ELSE {refinar_combinacion(Take(SortedByKey(Neg(score)), n), hist) :
          score \in {IntKey(ScoreMomentum(hist))}}

\* 1.6*(mv[x]/norm)+1.2*(ac[x]/norm)+1.0*(20-rank)/20
Votar(mv, ac, norm_mv, norm_ac, pos) ==
  Luego(<<norm_mv, norm_ac, pos>>, Tab([a \in Nums |->
          RAdd(RAdd(RMul(Rat(16, 10), RDiv(mv[a], norm_mv)),
                    RMul(Rat(12, 10), RDiv(ac[a], norm_ac))),
               Rat(20 - pos[a], 20))]))

VotosDe(mv, ac, top_f) ==
  Luego(<<mv, ac, top_f>>,
        Votar(mv, ac, MaxOr1(mv), MaxOr1(ac), Posicion(top_f, 20)))

\* votos of metodo_ensemble_v3
VotosV3(hist) ==
  VotosDe(score_multiventana(hist), score_aceleracion(hist, 8, 30),
          Solo(metodo_frecuencias(hist, 20)))

metodo_ensemble_v3(hist, n) ==
  IF Len(hist) < 30 THEN metodo_ensemble_v2(hist, n)
  ELSE {refinar_combinacion(Take(SortedByKey(Neg(votos)), n), hist) :
          votos \in {IntKey(VotosV3(hist))}}

\* key=lambda x:(-conteo[x],-ac[x]), m above every ac[x]
ClaveDoble(cnt, ac, m) ==
  Luego(m, Tab([a \in Nums |-> -(cnt[a] * m + ac[a])]))

Consenso(cnt, ac) ==
  Luego(<<cnt, ac>>, SortedByKey(ClaveDoble(cnt, ac, 1 + MaxOfSeq(ac))))

\* sorted(range(1,50),key=lambda x:(-conteo[x],-ac[x])) over three windows
CandidatosVentanas(hist) ==
  Consenso(Conteo(<<Range(Solo(metodo_calientes(hist, 5, 10))),
                    Range(Solo(metodo_calientes(hist, 12, 10))),
                    Range(Solo(metodo_calientes(hist, 30, 10)))>>),
           IntKey(score_aceleracion(hist, 8, 30)))

metodo_alta_confianza_v3(hist, n) ==
  IF Len(hist) < 30 THEN metodo_alta_confianza_v2(hist, n)
  ELSE {refinar_combinacion(Take(candidatos, n), hist) :
          candidatos \in {CandidatosVentanas(hist)}}

metodo_rachas_mv_sinref(hist, n) ==
  IF Len(hist) < 30 THEN metodo_rachas_mix_v2(hist, n)
  ELSE {TopN(Neg(IntKey(ScoreMomentum(hist))), n)}

metodo_rachas_ventana5(hist, n) ==
  IF Len(hist) < 10 THEN metodo_aleatorio(hist)
  ELSE {Sorted(Take(Llenar(Llenar(<< >>, cal, 4), frec, 6), n)) :
          cal \in metodo_calientes(hist, 5, 15),
          frec \in metodo_frecuencias(hist, 15)}

metodo_ensemble_mv_sinref(hist, n) ==
  IF Len(hist) < 30 THEN metodo_ensemble_v2(hist, n)
  ELSE {TopN(Neg(IntKey(VotosV3(hist))), n)}

metodo_ac_mv_sinref(hist, n) ==
  IF Len(hist) < 30 THEN metodo_alta_confianza_v2(hist, n)
  ELSE {SortedSet(Range(Take(CandidatosVentanas(hist), n)))}

(***************************************************************************)
(* The histories the model runs on: draws taken from a pool in a pattern   *)
(* (stride, offset), one draw per date.                                    *)
(***************************************************************************)
Pool == << <<1, 2, 3, 4, 5, 6>>,
           <<3, 7, 12, 25, 33, 49>>,
           <<5, 12, 19, 26, 33, 40>>,
           <<44, 45, 46, 47, 48, 49>>,
           <<2, 7, 14, 21, 28, 35>> >>

Sorteo(j, s, o) ==
  [fecha |-> j,
   numeros |-> Pool[((j * s + o) % Len(Pool)) + 1],
   reintegro |-> (j * 3 + o) % 10]

Historia(s, o, L) == Lista([j \in 1..L |-> Sorteo(j, s, o)])

\* constant histories of the draws 1..6 (sum below suma_min) and 44..49 (sum
\* above suma_max), and the strides 1..MaxStride through the pool
Patrones == {<<0, 0>>, <<0, 3>>} \cup {<<s, 0>> : s \in 1..MaxStride}

Historias == {Historia(p[1], p[2], L) : p \in Patrones, L \in 0..MaxLen}

(***************************************************************************)
(* A direct call of one selector.                                          *)
(***************************************************************************)
\* the selectors that take n
ConN == {"metodo_frecuencias", "metodo_frios", "metodo_debidos",
         "metodo_calientes", "metodo_mixto_15_70_15",
         "metodo_rachas_mix_v2", "metodo_ensemble_v2",
         "metodo_alta_confianza_v2", "metodo_rachas_mv_sinref",
         "metodo_rachas_ventana5", "metodo_ensemble_mv_sinref",
         "metodo_ac_mv_sinref", "metodo_rachas_mix_v3",
         "metodo_ensemble_v3", "metodo_alta_confianza_v3"}

Selectores == {"metodo_aleatorio"} \cup ConN

\* fn(hist, n=n), the other parameters at their defaults
Llamar(fn, hist, n) ==
  CASE fn = "metodo_aleatorio"          -> metodo_aleatorio(hist)
    [] fn = "metodo_frecuencias"        -> metodo_frecuencias(hist, n)
    [] fn = "metodo_frios"              -> metodo_frios(hist, n)
    [] fn = "metodo_debidos"            -> metodo_debidos(hist, n)
    [] fn = "metodo_calientes"          -> metodo_calientes(hist, 12, n)
    [] fn = "metodo_mixto_15_70_15"     -> metodo_mixto_15_70_15(hist, 12, n)
    [] fn = "metodo_rachas_mix_v2"      -> metodo_rachas_mix_v2(hist, n)
    [] fn = "metodo_ensemble_v2"        -> metodo_ensemble_v2(hist, n)
    [] fn = "metodo_alta_confianza_v2"  -> metodo_alta_confianza_v2(hist, n)
    [] fn = "metodo_rachas_mv_sinref"   -> metodo_rachas_mv_sinref(hist, n)
    [] fn = "metodo_rachas_ventana5"    -> metodo_rachas_ventana5(hist, n)
    [] fn = "metodo_ensemble_mv_sinref" -> metodo_ensemble_mv_sinref(hist, n)
    [] fn = "metodo_ac_mv_sinref"       -> metodo_ac_mv_sinref(hist, n)
    [] fn = "metodo_rachas_mix_v3"      -> metodo_rachas_mix_v3(hist, n)
    [] fn = "metodo_ensemble_v3"        -> metodo_ensemble_v3(hist, n)
    [] fn = "metodo_alta_confianza_v3"  -> metodo_alta_confianza_v3(hist, n)
    [] fn = "metodo_rachas_mix"         -> metodo_rachas_mix(hist, 12, n)
    [] fn = "metodo_ensemble"           -> metodo_ensemble(hist, n)
    [] fn = "metodo_alta_confianza"     -> metodo_alta_confianza(hist, n, 3)

Reposo ==
  /\ archivo = << >> /\ pc = "llamada" /\ sorteos = << >> /\ metodo = ""
  /\ n_eval = 0 /\ reps = 0 /\ i = 0 /\ total_ac = << >> /\ paso = << >>
  /\ llamadas = 0 /\ gastado = 0 /\ ganado = 0 /\ conteo = << >>
  /\ pendientes = {} /\ obreros = << >> /\ chosen = << >> /\ sc = {}

programa == <<archivo, pc, sorteos, metodo, n_eval, reps, i, total_ac, paso,
              llamadas, gastado, ganado, conteo, otros>>

InitSel ==
  /\ Reposo
  /\ call \in {[fn |-> f, hist |-> h, n |-> 6] :
                 f \in Selectores, h \in Historias}
             \cup {[fn |-> f, hist |-> h, n |-> 15] :
                     f \in ConN, h \in Historias}
  /\ ret = << >>

LlamarSelector ==
  /\ ret = << >>
  /\ \E r \in Llamar(call.fn, call.hist, call.n) : ret' = <<r>>
  /\ UNCHANGED <<programa, call>>

NextSel == LlamarSelector

SpecSel == InitSel /\ [][NextSel]_vars

(***************************************************************************)
(* The same selector called twice on the same history.                     *)
(***************************************************************************)
\* the selectors of the first generation, outside METODOS
SelectoresV1 == {"metodo_rachas_mix", "metodo_ensemble",
                 "metodo_alta_confianza"}

\* histories of runs of six consecutive numbers that slide by two per draw:
\* few numbers are in the top 12 of three criteria
Deslizante(L) ==
  Lista([j \in 1..L |->
           [fecha |-> j,
            numeros |-> [k \in 1..6 |-> 2 * j + k],
            reintegro |-> j % 10]])

HistoriasDos == Historias \cup {Deslizante(L) : L \in 12..14}

InitDos ==
  /\ Reposo
  /\ call \in {[fn |-> f, hist |-> h, n |-> 6] :
                 f \in Selectores \cup SelectoresV1, h \in HistoriasDos}
  /\ ret = << >>

Repetir ==
  /\ Len(ret) < 2
  /\ \E r \in Llamar(call.fn, call.hist, call.n) : ret' = Append(ret, r)
  /\ UNCHANGED <<programa, call>>

NextDos == Repetir

SpecDos == InitDos /\ [][NextDos]_vars

(***************************************************************************)
(* A direct call of norm on a map of scores.                               *)
(***************************************************************************)
\* the scores of the maps: below 0, 0, within the 0.001 floor, above it
Puntuaciones == {<<-1, 1>>, <<0, 1>>, <<1, 2000>>, <<1, 3>>, <<1, 1>>}

Mapas == [1..MaxKeys -> Puntuaciones]

InitNorm ==
  /\ Reposo
  /\ call \in {[fn |-> "norm", d |-> d] : d \in Mapas}
  /\ ret = << >>

LlamarNorm ==
  /\ ret = << >>
  /\ ret' = <<norm(call.d)>>
  /\ UNCHANGED <<programa, call>>

NextNorm == LlamarNorm

SpecNorm == InitNorm /\ [][NextNorm]_vars

(***************************************************************************)
(* A direct call of refinar_combinacion on a 6-number selection.           *)
(***************************************************************************)
\* selections with sums below suma_min, within the range, above suma_max,
\* and two whose extreme is not the extreme of 1..49
Combos ==
  {SortedSet(S) : S \in {T \in SUBSET ((1..5) \cup (45..49)) :
                           Cardinality(T) = 6}}
    \cup {<<2, 3, 4, 5, 6, 7>>, <<43, 44, 45, 46, 47, 48>>}

\* histories around the 10-draw threshold, and the longest
HistoriasRef ==
  {Historia(p[1], p[2], L) : p \in Patrones, L \in {9, 10, MaxLen}}

InitRef ==
  /\ Reposo
  /\ call \in {[fn |-> "refinar_combinacion", combo |-> c, hist |-> h] :
                 c \in Combos, h \in HistoriasRef}
  /\ ret = << >>

LlamarRefinar ==
  /\ ret = << >>
  /\ ret' = <<refinar_combinacion(call.combo, call.hist)>>
  /\ call' = [call EXCEPT
                !.combo = ArgumentoTrasRefinar(call.combo, call.hist)]
  /\ UNCHANGED programa

NextRef == LlamarRefinar

SpecRef == InitRef /\ [][NextRef]_vars

(***************************************************************************)
(* The scripts: cargar, then backtest (sim_metodos.py) or                  *)
(* simular_con_reintegros (sim_reintegros.py).  One behaviour is one call  *)
(* of backtest or of simular_con_reintegros on the loaded history.         *)
(***************************************************************************)
Entero(v) == [t |-> "int", v |-> v]
Texto == [t |-> "txt", v |-> 0]

\* a CSV row for a draw; a cell is an integer literal or other text
Fila(d) ==
  [fecha |-> d.fecha,
   n |-> Lista([p \in 1..6 |-> Entero(d.numeros[p])]),
   reintegro |-> Entero(d.reintegro)]

Defectos == {"cero", "dup", "alto", "texto"}

\* a row with a defect: a 0 written as padding, a repeated number, a number
\* above 49, a cell that is not an integer
ConDefecto(f, d) ==
  CASE d = "cero"  -> [f EXCEPT !.n[6] = Entero(0)]
    [] d = "dup"   -> [f EXCEPT !.n[2] = f.n[1]]
    [] d = "alto"  -> [f EXCEPT !.n[6] = Entero(maxNum + 1)]
    [] d = "texto" -> [f EXCEPT !.n[1] = Texto]
    [] OTHER       -> f

Reverse(s) == Lista([p \in 1..Len(s) |-> s[Len(s) + 1 - p]])

\* the file of a history, newest draw first; the defect goes to its oldest row
Archivo(hist, d) ==
  LET filas == Reverse([p \in 1..Len(hist) |-> Fila(hist[p])])
  IN  Lista([p \in 1..Len(filas) |->
         IF p = Len(filas) THEN ConDefecto(filas[p], d) ELSE filas[p]])

\* the lengths of the files: no longer than n, and the three longest
Longitudes == (0..MaxEval) \cup ((MaxFile - 2)..MaxFile)

\* the files of the histories, and the longest two with each defect
Archivos ==
  {Archivo(Historia(st, 0, L), "ninguno") :
     st \in 0..MaxStride, L \in Longitudes}
  \cup {Archivo(Historia(1, 0, L), d) :
          d \in Defectos, L \in (MaxFile - 1)..MaxFile}

\* int(row[...]) raises ValueError on a cell that is not an integer
FilaLegible(f) ==
  /\ \A p \in 1..6 : f.n[p].t = "int"
  /\ f.reintegro.t = "int"

cargar(arch) ==
  Reverse([p \in 1..Len(arch) |->
     [fecha |-> arch[p].fecha,
      numeros |-> Sorted([q \in 1..6 |-> arch[p].n[q].v]),
      reintegro |-> arch[p].reintegro.v]])

METODOS == {"metodo_aleatorio", "metodo_mixto_15_70_15",
            "metodo_rachas_mix_v2", "metodo_ensemble_v2",
            "metodo_alta_confianza_v2", "metodo_rachas_mv_sinref",
            "metodo_rachas_ventana5", "metodo_ensemble_mv_sinref",
            "metodo_ac_mv_sinref", "metodo_rachas_mix_v3",
            "metodo_ensemble_v3", "metodo_alta_confianza_v3"}

Ninguno == [tipo |-> "ninguno"]

Init ==
  /\ archivo \in Archivos
  /\ pc = "inicio"
  /\ sorteos = << >> /\ metodo = "" /\ n_eval = 0 /\ reps = 0 /\ i = 0
  /\ total_ac = << >> /\ paso = Ninguno /\ llamadas = 0
  /\ gastado = 0 /\ ganado = 0 /\ conteo = << >>
  /\ call = << >> /\ ret = << >>
  /\ pendientes = {} /\ obreros = << >> /\ chosen = << >> /\ sc = {}

\* sorteos=cargar(r'app/src/main/res/raw/historico_primitiva.csv')
Cargar ==
  /\ pc = "inicio"
  /\ IF \A p \in DOMAIN archivo : FilaLegible(archivo[p])
     THEN /\ sorteos' = cargar(archivo)
          /\ pc' = "cargado"
     ELSE /\ pc' = "error"
          /\ UNCHANGED sorteos
  /\ UNCHANGED <<archivo, metodo, n_eval, reps, i, total_ac, paso, llamadas,
                 gastado, ganado, conteo, call, ret,
                 otros>>

(***************************************************************************)
(* backtest(sorteos, metodo_fn, n, reps)                                   *)
(***************************************************************************)
\* len(set(pred)&set(s['numeros']))
Aciertos(pred, s) == Cardinality(Range(pred) \cap Range(s.numeros))

\* Mejor with mejor=ac in place of mejor=max(mejor,ac)
Mejor_ultimo(preds, s) ==
  IF preds = << >> THEN 0 ELSE Aciertos(preds[Len(preds)], s)

\* mejor=0; for _ in range(reps): ...; mejor=max(mejor,ac)
RECURSIVE Mejor(_, _)
Mejor(preds, s) ==
  IF preds = << >> THEN 0
  ELSE Max2(Mejor(SubSeq(preds, 1, Len(preds) - 1), s),
            Aciertos(preds[Len(preds)], s))

\* the prefix with the draw itself: sorteos[:i+1]
Prefijo_con_sorteo(hist, k) == PySliceTo(hist, k + 1)

\* h=sorteos[:i]
Prefijo(hist, k) == PySliceTo(hist, k)

IniciarBacktest ==
  /\ pc = "cargado"
  /\ \E fn \in METODOS, n \in 0..MaxEval, r \in 1..MaxReps :
       /\ metodo' = fn
       /\ n_eval' = n
       /\ reps' = r
       /\ i' = Len(sorteos) - n
  /\ total_ac' = <<0, 0, 0, 0, 0, 0, 0>>
  /\ pc' = "backtest"
  /\ UNCHANGED <<archivo, sorteos, paso, llamadas, gastado, ganado, conteo,
                 call, ret,
                 otros>>

\* PasoBacktest without "if not h: continue"
PasoBacktest_sin_omitir ==
  /\ pc = "backtest"
  /\ i < Len(sorteos)
  /\ PyIndex(sorteos, i) # 0
  /\ \E preds \in [1..reps -> Llamar(metodo, Prefijo(sorteos, i), 6)] :
       /\ total_ac' = [total_ac EXCEPT
                         ![Mejor(preds, sorteos[PyIndex(sorteos, i)]) + 1] = @ + 1]
       /\ paso' = [tipo |-> "evaluado", s |-> sorteos[PyIndex(sorteos, i)],
                   h |-> Prefijo(sorteos, i), preds |-> Lista(preds),
                   mejor |-> Mejor(preds, sorteos[PyIndex(sorteos, i)])]
       /\ llamadas' = llamadas + reps
       /\ i' = i + 1
       /\ UNCHANGED pc
  /\ UNCHANGED <<archivo, sorteos, metodo, n_eval, reps, gastado, ganado,
                 conteo, call, ret,
                 otros>>

\* one iteration of: for i in range(inicio,len(sorteos))
PasoBacktest ==
  /\ pc = "backtest"
  /\ i < Len(sorteos)
  /\ LET idx == PyIndex(sorteos, i)
         h == Prefijo(sorteos, i)
     IN  IF idx = 0
         THEN \* s=sorteos[i] raises IndexError
              /\ pc' = "error"
              /\ UNCHANGED <<i, total_ac, paso, llamadas>>
         ELSE IF h = << >>
         THEN \* if not h: continue
              /\ paso' = [tipo |-> "omitido", s |-> sorteos[idx], h |-> h]
              /\ i' = i + 1
              /\ UNCHANGED <<pc, total_ac, llamadas>>
         ELSE LET posibles == Llamar(metodo, h, 6)
              IN  \E preds \in [1..reps -> posibles] :
                    LET mejor == Mejor(preds, sorteos[idx])
                    IN  /\ total_ac' = [total_ac EXCEPT ![mejor + 1] = @ + 1]
                        /\ paso' = [tipo |-> "evaluado", s |-> sorteos[idx],
                                    h |-> h, preds |-> Lista(preds), mejor |-> mejor]
                        /\ llamadas' = llamadas + reps
                        /\ i' = i + 1
                        /\ UNCHANGED pc
  /\ UNCHANGED <<archivo, sorteos, metodo, n_eval, reps, gastado, ganado,
                 conteo, call, ret,
                 otros>>

\* sum(total_ac[k:])
SumaDesde(ac, k) == SumSeq(SubSeq(ac, k + 1, Len(ac)))

\* total, media, pct3, pct4 and the return
TerminarBacktest ==
  /\ pc = "backtest"
  /\ i >= Len(sorteos)
  /\ LET total == SumaDesde(total_ac, 0)
         den == Max2(total, 1)
     IN  paso' = [tipo |-> "resultado",
                  total_ac |-> total_ac,
                  media |-> Rat(SumSeq([p \in 1..7 |-> (p - 1) * total_ac[p]]), den),
                  pct3 |-> Rat(SumaDesde(total_ac, 3) * 100, den),
                  pct4 |-> Rat(SumaDesde(total_ac, 4) * 100, den)]
  /\ pc' = "fin"
  /\ UNCHANGED <<archivo, sorteos, metodo, n_eval, reps, i, total_ac,
                 llamadas, gastado, ganado, conteo, call, ret,
                 otros>>

(***************************************************************************)
(* The iterations of the backtest loop handed to a pool of workers: each   *)
(* worker takes any iteration not yet taken, evaluates it on the history   *)
(* and adds its mejor to the shared histogram.                             *)
(***************************************************************************)
Obreros == 1..NumObreros

\* range(inicio,len(sorteos)) for n <= len(sorteos)
Pasos(hist, n) == (Len(hist) - n)..(Len(hist) - 1)

\* the values mejor can take in iteration k
MejoresPaso(hist, fn, r, k) ==
  {Mejor(preds, hist[k + 1]) : preds \in [1..r -> Llamar(fn, Prefijo(hist, k), 6)]}

\* total_ac[mejor]+=1
Incrementar(ac, mejor) == [ac EXCEPT ![mejor + 1] = @ + 1]

\* the loop of backtest run in order from iteration k, for a selector with
\* one outcome per prefix
RECURSIVE BacktestDesde(_, _, _, _, _)
BacktestDesde(hist, fn, r, k, ac) ==
  IF k >= Len(hist) THEN ac
  ELSE IF Prefijo(hist, k) = << >> THEN BacktestDesde(hist, fn, r, k + 1, ac)
  ELSE BacktestDesde(hist, fn, r, k + 1,
         Incrementar(ac, CHOOSE m \in MejoresPaso(hist, fn, r, k) : TRUE))

\* total, media, pct3, pct4 of a histogram
Resumen(ac) ==
  [tipo |-> "resultado",
   total_ac |-> ac,
   media |-> Rat(SumSeq([p \in 1..7 |-> (p - 1) * ac[p]]),
                 Max2(SumaDesde(ac, 0), 1)),
   pct3 |-> Rat(SumaDesde(ac, 3) * 100, Max2(SumaDesde(ac, 0), 1)),
   pct4 |-> Rat(SumaDesde(ac, 4) * 100, Max2(SumaDesde(ac, 0), 1))]

\* backtest(sorteos, metodo_fn, n, reps) as one sequential call
backtest(hist, fn, n, r) ==
  Resumen(BacktestDesde(hist, fn, r, Len(hist) - n,
                        <<0, 0, 0, 0, 0, 0, 0>>))

\* the selector has one outcome on every prefix the run evaluates
Determinista(hist, fn, n) ==
  \A k \in Pasos(hist, n) :
    Prefijo(hist, k) # << >> => Cardinality(Llamar(fn, Prefijo(hist, k), 6)) = 1

LongitudesPar == {MaxEval, 13, MaxLen}
HistoriasPar == {Historia(p[1], p[2], L) : p \in Patrones, L \in LongitudesPar}
MetodosPar == {"metodo_frecuencias", "metodo_debidos", "metodo_calientes",
               "metodo_mixto_15_70_15", "metodo_ensemble_v2"}

Libre == [tipo |-> "libre"]

\* ret holds what the sequential call returns for the same arguments
InitPar ==
  /\ archivo = << >> /\ pc = "paralelo"
  /\ sorteos \in HistoriasPar
  /\ metodo \in MetodosPar
  /\ n_eval \in 1..MaxEval
  /\ Determinista(sorteos, metodo, n_eval)
  /\ reps = 1 /\ i = Len(sorteos) - n_eval
  /\ total_ac = <<0, 0, 0, 0, 0, 0, 0>>
  /\ paso = Ninguno /\ llamadas = 0
  /\ gastado = 0 /\ ganado = 0 /\ conteo = << >>
  /\ call = [fn |-> "backtest", n |-> n_eval, reps |-> reps]
  /\ ret = <<backtest(sorteos, metodo, n_eval, reps)>>
  /\ pendientes = Pasos(sorteos, n_eval)
  /\ obreros = [w \in Obreros |-> Libre]
  /\ chosen = << >> /\ sc = {}

fijos == <<archivo, sorteos, metodo, n_eval, reps, i, gastado, ganado, conteo,
           call, ret, chosen, sc>>

\* a free worker takes any iteration still pending
Tomar(w) ==
  /\ pc = "paralelo"
  /\ obreros[w] = Libre
  /\ \E k \in pendientes :
       /\ pendientes' = pendientes \ {k}
       /\ obreros' = [obreros EXCEPT ![w] = [tipo |-> "tomado", i |-> k]]
  /\ UNCHANGED <<fijos, pc, total_ac, paso, llamadas>>

\* s=sorteos[i]; h=sorteos[:i]; if not h: continue; mejor=...
Evaluar(w) ==
  /\ pc = "paralelo"
  /\ obreros[w].tipo = "tomado"
  /\ IF Prefijo(sorteos, obreros[w].i) = << >>
     THEN /\ obreros' = [obreros EXCEPT ![w] = Libre]
          /\ UNCHANGED llamadas
     ELSE /\ \E m \in MejoresPaso(sorteos, metodo, reps, obreros[w].i) :
               obreros' = [obreros EXCEPT ![w] =
                             [tipo |-> "evaluado", i |-> obreros[w].i,
                              mejor |-> m]]
          /\ llamadas' = llamadas + reps
  /\ UNCHANGED <<fijos, pc, total_ac, paso, pendientes>>

\* Sumar where an add that meets another worker's pending add to the same
\* bucket is lost
Sumar_perdido(w) ==
  /\ pc = "paralelo"
  /\ obreros[w].tipo = "evaluado"
  /\ total_ac' = IF \E v \in Obreros \ {w} :
                      /\ obreros[v].tipo = "evaluado"
                      /\ obreros[v].mejor = obreros[w].mejor
                 THEN total_ac
                 ELSE Incrementar(total_ac, obreros[w].mejor)
  /\ obreros' = [obreros EXCEPT ![w] = Libre]
  /\ UNCHANGED <<fijos, pc, paso, llamadas, pendientes>>

\* total_ac[mejor]+=1, as one step
Sumar(w) ==
  /\ pc = "paralelo"
  /\ obreros[w].tipo = "evaluado"
  /\ total_ac' = Incrementar(total_ac, obreros[w].mejor)
  /\ obreros' = [obreros EXCEPT ![w] = Libre]
  /\ UNCHANGED <<fijos, pc, paso, llamadas, pendientes>>

\* every iteration added: total, media, pct3, pct4
TerminarPar ==
  /\ pc = "paralelo"
  /\ pendientes = {}
  /\ \A w \in Obreros : obreros[w] = Libre
  /\ paso' = Resumen(total_ac)
  /\ pc' = "fin"
  /\ UNCHANGED <<fijos, total_ac, llamadas, pendientes, obreros>>

NextPar ==
  \/ \E w \in Obreros : Tomar(w)
  \/ \E w \in Obreros : Evaluar(w)
  \/ \E w \in Obreros : Sumar(w)
  \/ TerminarPar

SpecPar == InitPar /\ [][NextPar]_vars

(***************************************************************************)
(* simular_con_reintegros(sorteos, estrategia_fn, n_sims)                  *)
(***************************************************************************)
Categorias == <<"BOTE", "2a", "3a", "4a", "5a", "6a", "R">>
Cat(c) == CHOOSE p \in DOMAIN Categorias : Categorias[p] = c

\* premio with the reintegro forgotten for 5 hits
premio_sin_reintegro(ac_nums, ac_rein) ==
  IF ac_nums = 6 /\ ac_rein THEN <<"BOTE", 0>>
  ELSE IF ac_nums = 6 THEN <<"2a", 0>>
  ELSE IF ac_nums = 5 THEN <<"4a", 1500>>
  ELSE IF ac_nums = 4 THEN <<"5a", 48>>
  ELSE IF ac_nums = 3 THEN <<"6a", 8>>
  ELSE IF ac_rein THEN <<"R", 1>>
  ELSE <<"None", 0>>

\* premio(ac_nums, ac_rein) -> <<cat, val>>; "None" is Python's None
premio(ac_nums, ac_rein) ==
  IF ac_nums = 6 /\ ac_rein THEN <<"BOTE", 0>>
  ELSE IF ac_nums = 6 THEN <<"2a", 0>>
  ELSE IF ac_nums = 5 /\ ac_rein THEN <<"3a", 20000>>
  ELSE IF ac_nums = 5 THEN <<"4a", 1500>>
  ELSE IF ac_nums = 4 THEN <<"5a", 48>>
  ELSE IF ac_nums = 3 THEN <<"6a", 8>>
  ELSE IF ac_rein THEN <<"R", 1>>
  ELSE <<"None", 0>>

\* the premio of one ticket (nums, rein) against the draw s
PremioBoleto(b, s) ==
  premio(Cardinality(Range(b[1]) \cap Range(s.numeros)), b[2] = s.reintegro)

\* Escrutinio with the values of the winning tickets added up
RECURSIVE Escrutinio_suma(_, _, _)
Escrutinio_suma(boletos, s, cnt) ==
  IF boletos = << >>
  THEN [conteo |-> cnt, mejor_val |-> 0, mejor_cat |-> "None"]
  ELSE LET antes == Escrutinio_suma(SubSeq(boletos, 1, Len(boletos) - 1), s, cnt)
           pr == PremioBoleto(boletos[Len(boletos)], s)
       IN  IF pr[1] = "None" THEN antes
           ELSE [conteo |-> [antes.conteo EXCEPT ![Cat(pr[1])] = @ + 1],
                 mejor_val |-> antes.mejor_val + pr[2],
                 mejor_cat |-> pr[1]]

\* the loop over the tickets of one draw: conteo, mejor_val, mejor_cat
RECURSIVE Escrutinio(_, _, _)
Escrutinio(boletos, s, cnt) ==
  IF boletos = << >>
  THEN [conteo |-> cnt, mejor_val |-> 0, mejor_cat |-> "None"]
  ELSE LET antes == Escrutinio(SubSeq(boletos, 1, Len(boletos) - 1), s, cnt)
           pr == PremioBoleto(boletos[Len(boletos)], s)
       IN  IF pr[1] = "None" THEN antes
           ELSE [conteo |-> [antes.conteo EXCEPT ![Cat(pr[1])] = @ + 1],
                 mejor_val |-> IF pr[2] > antes.mejor_val
                               THEN pr[2] ELSE antes.mejor_val,
                 mejor_cat |-> IF pr[2] > antes.mejor_val
                               THEN pr[1] ELSE antes.mejor_cat]

\* The tickets a strategy may play: some combinations with some reintegros.
CombosBoleto == {<<1, 2, 3, 4, 5, 7>>, <<3, 7, 12, 19, 26, 40>>}
ReintegrosBoleto == {3, 7}
BoletosPosibles == CombosBoleto \X ReintegrosBoleto

\* estrategia_fn(h): any strategy whose portfolio has T tickets
Boletos(estrategia, h) == [1..estrategia.T -> BoletosPosibles]

\* a cost of one unit per draw
Coste_por_sorteo(boletos) == 1

\* gastado+=len(boletos)
Coste(boletos) == Len(boletos)

IniciarSim ==
  /\ pc = "cargado"
  /\ \E t \in 1..MaxBoletos, n \in 0..MaxEval :
       /\ metodo' = [nombre |-> "estrategia", T |-> t]
       /\ n_eval' = n
       /\ i' = Len(sorteos) - n
  /\ gastado' = 0
  /\ ganado' = 0
  /\ conteo' = <<0, 0, 0, 0, 0, 0, 0>>
  /\ pc' = "sim"
  /\ UNCHANGED <<archivo, sorteos, reps, total_ac, paso, llamadas, call, ret,
                 otros>>

\* one iteration of: for i in range(inicio,len(sorteos))
PasoSim ==
  /\ pc = "sim"
  /\ i < Len(sorteos)
  /\ LET idx == PyIndex(sorteos, i)
         h == Prefijo(sorteos, i)
     IN  IF idx = 0
         THEN \* s=sorteos[i] raises IndexError
              /\ pc' = "error"
              /\ UNCHANGED <<i, paso, llamadas, gastado, ganado, conteo>>
         ELSE \E boletos \in Boletos(metodo, h) :
                LET e == Escrutinio(boletos, sorteos[idx], conteo)
                IN  /\ gastado' = gastado + Coste(boletos)
                    /\ conteo' = e.conteo
                    /\ ganado' = ganado + e.mejor_val
                    /\ paso' = [tipo |-> "sim", s |-> sorteos[idx], h |-> h,
                                boletos |-> Lista(boletos),
                                mejor_val |-> e.mejor_val,
                                mejor_cat |-> e.mejor_cat]
                    /\ llamadas' = llamadas + 1
                    /\ i' = i + 1
                    /\ UNCHANGED pc
  /\ UNCHANGED <<archivo, sorteos, metodo, n_eval, reps, total_ac, call, ret,
                 otros>>

\* return gastado, ganado, ganado-gastado, dict(conteo)
TerminarSim ==
  /\ pc = "sim"
  /\ i >= Len(sorteos)
  /\ paso' = [tipo |-> "resultado_sim", gastado |-> gastado,
              ganado |-> ganado, balance |-> ganado - gastado,
              conteo |-> conteo]
  /\ pc' = "fin"
  /\ UNCHANGED <<archivo, sorteos, metodo, n_eval, reps, i, total_ac,
                 llamadas, gastado, ganado, conteo, call, ret,
                 otros>>

Next ==
  \/ Cargar
  \/ IniciarBacktest
  \/ PasoBacktest
  \/ TerminarBacktest
  \/ IniciarSim
  \/ PasoSim
  \/ TerminarSim

Spec == Init /\ [][Next]_vars

(***************************************************************************)
(* The ticket strategies of sim_reintegros.py.  Every strategy starts with *)
(* cands=candidatos(hist); combos=greedy_combos(cands); the while loop of  *)
(* greedy_combos is run one iteration per step.  chosen and sc hold        *)
(* positions in sorted(cands): combinations() enumerates by position and   *)
(* the loop compares the elements of cands for identity only.              *)
(***************************************************************************)
v == 17
mit == 24
max_t == 15

\* vc2=max(min(vc,n//3),8)
VentanaCandidatos(hist) == Max2(Min2(12, Len(hist) \div 3), 8)

\* fin={x:pf*nf[x]+pc*nc[x]+pd*nd[x] for x in range(1,50)}
FinCandidatos(hist) ==
  Ponderar(norm(Desvio(Frec(hist), Rat(Len(hist) * 6, 49))),
           norm(Desvio(Frec(LastN(hist, VentanaCandidatos(hist))),
                       Rat(VentanaCandidatos(hist) * 6, 49))),
           norm(Retraso(Frec(hist), UltimaAparicion(hist), Len(hist))))

\* while len(res)<v: alternate bajos and altos
RECURSIVE Intercalar(_, _, _, _, _)
Intercalar(res, bajos, altos, ib, ia) ==
  IF Len(res) >= v THEN res
  ELSE IF ib < Len(bajos) /\ (ia >= Len(altos) \/ ib <= ia)
  THEN Intercalar(Append(res, bajos[ib + 1]), bajos, altos, ib + 1, ia)
  ELSE IF ia < Len(altos)
  THEN Intercalar(Append(res, altos[ia + 1]), bajos, altos, ib, ia + 1)
  ELSE res

\* bajos=[x for x in orden if x<=mit]; altos=[x for x in orden if x>mit]
Mitades(orden) ==
  LET Bajo(x) == x <= mit
      Alto(x) == x > mit
  IN  Take(Intercalar(<< >>, SelectSeq(orden, Bajo), SelectSeq(orden, Alto),
                      0, 0), v)

candidatos(hist) ==
  IF Len(hist) < 30 THEN Lista([p \in 1..v |-> p])
  ELSE Mitades(SortedByKey(Neg(IntKey(FinCandidatos(hist)))))

\* the t-subset (t=3) of the positions a < b < c, as one number
Terna(a, b, c) == (a * 32 + b) * 32 + c

\* combinations(cands,t), t=3, as positions
tsubs ==
  UNION {UNION {{Terna(a, b, c) : c \in (b + 1)..v} : b \in (a + 1)..v} :
           a \in 1..v}

\* combinations(cands,6), as positions
all_bol ==
  UNION {UNION {UNION {UNION {UNION {
    {<<a, b, c, d, e, f>> : f \in (e + 1)..v} : e \in (d + 1)..v} :
      d \in (c + 1)..v} : c \in (b + 1)..v} : b \in (a + 1)..v} : a \in 1..v}

\* the places of the 3-subsets of a 6-tuple
Ternas == {x \in (1..6) \X (1..6) \X (1..6) : x[1] < x[2] /\ x[2] < x[3]}

\* cov[b]: the t-subsets with at least m=3 elements in b
cov(b) == {Terna(b[x[1]], b[x[2]], b[x[3]]) : x \in Ternas}

\* key=lambda b: len(cov[b]&sc) if b not in chosen else -1
Clave(b, elegidos, falta) ==
  IF b \in elegidos THEN -1
  ELSE Cardinality({x \in Ternas : Terna(b[x[1]], b[x[2]], b[x[3]]) \in falta})

Mayor(R) == CHOOSE x \in R : \A y \in R : y <= x

\* the first of the tuples of M in the order of combinations()
Menor(R) == CHOOSE x \in R : \A y \in R : x <= y
ConLugar(M, p, a) == Luego(a, {b \in M : b[p] = a})
RECURSIVE Primero(_, _)
Primero(M, p) ==
  IF p > 6 THEN CHOOSE b \in M : TRUE
  ELSE Primero(ConLugar(M, p, Menor({b[p] : b \in M})), p + 1)

\* claves is the set of the pairs <<key of b, b>>
MejorCon(claves, m) ==
  Luego(m, Primero({x[2] : x \in {y \in claves : y[1] = m}}, 1))

MejorDe(claves) ==
  Luego(claves, MejorCon(claves, Mayor({x[1] : x \in claves})))

\* best=max(all_bol,key=...): the first maximum
MejorBloque(elegidos, falta) ==
  MejorDe({<<Clave(b, elegidos, falta), b>> : b \in all_bol})

\* EnValores with list(chosen[0]) for every b
EnValores_primero(cands, elegidos) ==
  [p \in DOMAIN elegidos |-> [q \in 1..6 |-> cands[elegidos[1][q]]]]

\* [list(b) for b in chosen], with cands=sorted(cands)
EnValores(cands, elegidos) ==
  [p \in DOMAIN elegidos |-> [q \in 1..6 |-> cands[elegidos[p][q]]]]

\* frec[s['reintegro']]+=1
VecesReintegro(hist, r) ==
  Cardinality({p \in DOMAIN hist : hist[p].reintegro = r})

\* the place of r among the keys of frec (dict insertion order)
PrimeraVez(hist, r) ==
  CHOOSE p \in DOMAIN hist :
    hist[p].reintegro = r /\ \A q \in 1..(p - 1) : hist[q].reintegro # r

\* sorted(frec.items(),key=lambda x:-x[1]): stable
Delante(hist, q, r) ==
  \/ VecesReintegro(hist, q) > VecesReintegro(hist, r)
  \/ /\ VecesReintegro(hist, q) = VecesReintegro(hist, r)
     /\ PrimeraVez(hist, q) < PrimeraVez(hist, r)

OrdenReintegros(hist, R) ==
  Lista([p \in 1..Cardinality(R) |->
     CHOOSE r \in R : Cardinality({q \in R : Delante(hist, q, r)}) = p - 1])

top_reintegros(hist, n) ==
  Take(OrdenReintegros(hist, {hist[p].reintegro : p \in DOMAIN hist}), n)

\* r=reints[(idx*len(reints))//total]; result.append((c,r))
Repartir(combos, reints) ==
  [p \in DOMAIN combos |->
     <<combos[p], reints[(((p - 1) * Len(reints)) \div Len(combos)) + 1]>>]

estrategia_actual(hist, combos) ==
  Repartir(combos, IF top_reintegros(hist, 3) = << >> THEN <<7, 3, 1>>
                   ELSE top_reintegros(hist, 3))

estrategia_cubre5reintegros(hist, combos) ==
  Repartir(combos, IF Len(top_reintegros(hist, 5)) < 5
                   THEN Take(top_reintegros(hist, 5) \o <<0, 1, 2, 3, 4>>, 5)
                   ELSE top_reintegros(hist, 5))

\* estrategia_cubre10reintegros with all10[idx % 5]
estrategia_cubre10reintegros_cinco(hist, combos) ==
  [p \in DOMAIN combos |-> <<combos[p], (p - 1) % 5>>]

estrategia_cubre10reintegros(hist, combos) ==
  [p \in DOMAIN combos |-> <<combos[p], (p - 1) % 10>>]

\* combos[k:k+4] in the place of combos[k:k+5]
RestoDesde_corto(combos, k) ==
  IF Len(combos) > k THEN SubSeq(combos, k + 1, Min2(k + 4, Len(combos)))
  ELSE << >>

\* resto=combos[k:k+5] if len(combos)>k else []
RestoDesde(combos, k) ==
  IF Len(combos) > k THEN SubSeq(combos, k + 1, Min2(k + 5, Len(combos)))
  ELSE << >>

\* rein=reints_resto[idx] if idx<len(reints_resto) else idx%10
ConReintegro(resto, reints_resto) ==
  [p \in DOMAIN resto |->
     <<resto[p], IF p - 1 < Len(reints_resto) THEN reints_resto[p]
                 ELSE (p - 1) % 10>>]

estrategia_mejor_combo_10R(hist, combos) ==
  [r \in 1..10 |-> <<combos[1], r - 1>>]
    \o ConReintegro(RestoDesde(combos, 1),
         IF RestoDesde(combos, 1) # << >>
         THEN top_reintegros(hist, Len(RestoDesde(combos, 1))) ELSE << >>)

\* r=reints_resto[idx%len(reints_resto)] if reints_resto else idx%10
ConCiclo(resto, reints_resto) ==
  [p \in DOMAIN resto |->
     <<resto[p], IF reints_resto # << >>
                 THEN reints_resto[((p - 1) % Len(reints_resto)) + 1]
                 ELSE (p - 1) % 10>>]

estrategia_2combos_10R(hist, combos) ==
  Take([r \in 1..5 |-> <<combos[1], 2 * (r - 1)>>]
         \o (IF Len(Take(combos, 2)) > 1
             THEN [r \in 1..5 |-> <<combos[2], 2 * r - 1>>] ELSE << >>)
         \o ConCiclo(RestoDesde(combos, 2), top_reintegros(hist, 5)),
       15)

\* sorted_r with key=lambda r:frec[r]
sorted_r_ascendente(hist) ==
  Lista([p \in 1..10 |-> CHOOSE r \in 0..9 :
     Cardinality({q \in 0..9 :
        \/ VecesReintegro(hist, q) < VecesReintegro(hist, r)
        \/ VecesReintegro(hist, q) = VecesReintegro(hist, r) /\ q < r}) = p - 1])

\* sorted_r=sorted(range(10), key=lambda r:-frec[r])
sorted_r(hist) ==
  Lista([p \in 1..10 |-> CHOOSE r \in 0..9 :
     Cardinality({q \in 0..9 :
        \/ VecesReintegro(hist, q) > VecesReintegro(hist, r)
        \/ VecesReintegro(hist, q) = VecesReintegro(hist, r) /\ q < r}) = p - 1])

\* orden=[x for par in zip(top5,bottom5) for x in par]
Alternar(orden_r) ==
  [p \in 1..10 |-> IF p % 2 = 1 THEN orden_r[(p + 1) \div 2]
                   ELSE orden_r[5 + (p \div 2)]]

estrategia_frecuencia_interleaved(hist, combos) ==
  [p \in DOMAIN combos |->
     <<combos[p], Alternar(sorted_r(hist))[(((p - 1) * 10) \div Len(combos)) + 1]>>]

Estrategias == {"estrategia_actual", "estrategia_cubre5reintegros",
                "estrategia_cubre10reintegros", "estrategia_mejor_combo_10R",
                "estrategia_2combos_10R", "estrategia_frecuencia_interleaved"}

Estrategia(fn, hist, combos) ==
  CASE fn = "estrategia_actual" -> estrategia_actual(hist, combos)
    [] fn = "estrategia_cubre5reintegros" ->
         estrategia_cubre5reintegros(hist, combos)
    [] fn = "estrategia_cubre10reintegros" ->
         estrategia_cubre10reintegros(hist, combos)
    [] fn = "estrategia_mejor_combo_10R" ->
         estrategia_mejor_combo_10R(hist, combos)
    [] fn = "estrategia_2combos_10R" -> estrategia_2combos_10R(hist, combos)
    [] fn = "estrategia_frecuencia_interleaved" ->
         estrategia_frecuencia_interleaved(hist, combos)

HistoriasEstr ==
  {Historia(1, 0, L) : L \in {0, 1, 29, 30, MaxLen}}
    \cup {Historia(MaxStride, 0, 30)}

\* a strategy is called on hist: chosen=[]; sc=set(tsubs)
InitEstr ==
  /\ archivo = << >> /\ pc = "greedy" /\ sorteos = << >> /\ metodo = ""
  /\ n_eval = 0 /\ reps = 0 /\ i = 0 /\ total_ac = << >> /\ paso = << >>
  /\ llamadas = 0 /\ gastado = 0 /\ ganado = 0 /\ conteo = << >>
  /\ pendientes = {} /\ obreros = << >>
  /\ call \in {[fn |-> "estrategia", hist |-> h] : h \in HistoriasEstr}
  /\ ret = << >>
  /\ chosen = << >>
  /\ sc = tsubs

quietos == <<archivo, sorteos, n_eval, reps, i, total_ac, paso, llamadas,
             gastado, ganado, conteo, pendientes, obreros, call>>

\* one iteration of: while sc and len(chosen)<max_t
PasoGreedy ==
  /\ pc = "greedy"
  /\ sc # {} /\ Len(chosen) < max_t
  /\ \E best \in {MejorBloque(Range(chosen), sc)} :
       IF cov(best) \cap sc = {}
       THEN \* if not (cov[best]&sc): break
            /\ pc' = "armar"
            /\ UNCHANGED <<chosen, sc>>
       ELSE /\ chosen' = Append(chosen, best)
            /\ sc' = sc \ cov(best)
            /\ UNCHANGED pc
  /\ UNCHANGED <<quietos, metodo, ret>>

\* the while condition is false
SalirGreedy ==
  /\ pc = "greedy"
  /\ ~(sc # {} /\ Len(chosen) < max_t)
  /\ pc' = "armar"
  /\ UNCHANGED <<quietos, metodo, ret, chosen, sc>>

\* the rest of the strategy, from the combos greedy_combos returned
Armar ==
  /\ pc = "armar"
  /\ \E fn \in Estrategias :
       /\ metodo' = fn
       /\ ret' = <<Lista(Estrategia(fn, call.hist,
                     EnValores(Sorted(candidatos(call.hist)), chosen)))>>
  /\ pc' = "fin"
  /\ UNCHANGED <<quietos, chosen, sc>>

\* the draws the portfolio may meet: the next draw of the history, and the
\* draws of the numbers of one of its tickets, with its bonus digit or the
\* next digit
SorteosEstr(boletos, hist) ==
  {Sorteo(Len(hist) + 1, 1, 0)}
    \cup {[fecha |-> Len(hist) + 1, numeros |-> boletos[p][1],
            reintegro |-> (boletos[p][2] + d) % 10] :
            p \in DOMAIN boletos, d \in {0, 1}}

\* one iteration of simular_con_reintegros with the portfolio returned:
\* s=sorteos[i]; h=sorteos[:i]; boletos=estrategia_fn(h)
Escrutar ==
  /\ pc = "fin"
  /\ \E s \in SorteosEstr(ret[1], call.hist) :
       LET e == Escrutinio(ret[1], s, <<0, 0, 0, 0, 0, 0, 0>>)
       IN  /\ gastado' = gastado + Coste(ret[1])
           /\ conteo' = e.conteo
           /\ ganado' = ganado + e.mejor_val
           /\ paso' = [tipo |-> "sim", s |-> s, h |-> call.hist,
                       boletos |-> ret[1],
                       mejor_val |-> e.mejor_val,
                       mejor_cat |-> e.mejor_cat]
           /\ llamadas' = llamadas + 1
  /\ pc' = "escrutado"
  /\ UNCHANGED <<archivo, sorteos, metodo, n_eval, reps, i, total_ac,
                 pendientes, obreros, call, ret, chosen, sc>>

NextEstr == PasoGreedy \/ SalirGreedy \/ Armar \/ Escrutar

SpecEstr == InitEstr /\ [][NextEstr]_vars


(***************************************************************************)
(* One ticket scored against one draw: ac_n, ac_r and premio(ac_n, ac_r).  *)
(***************************************************************************)
SorteosPremio == {Sorteo(j, 1, 0) : j \in 1..Len(Pool)}

\* a ticket with k numbers of the draw s and 6-k numbers outside it
BoletoCon(s, k) ==
  Sorted(Take(s.numeros, k)
           \o Take(SortedSet(Nums \ Range(s.numeros)), 6 - k))

BoletosPremio(s) ==
  {<<BoletoCon(s, k), r>> :
     k \in 0..6, r \in {s.reintegro, (s.reintegro + 1) % 10}}

InitPremio ==
  /\ Reposo
  /\ call \in {[fn |-> "premio", boleto |-> b, s |-> s] :
                 b \in UNION {BoletosPremio(d) : d \in SorteosPremio},
                 s \in SorteosPremio}
  /\ ret = << >>

\* ac_n=len(set(nums)&gan); ac_r=(rein==rein_real); cat,val=premio(ac_n,ac_r)
LlamarPremio ==
  /\ ret = << >>
  /\ ret' = <<[ac_n |-> Aciertos(call.boleto[1], call.s),
               ac_r |-> call.boleto[2] = call.s.reintegro,
               premio |-> PremioBoleto(call.boleto, call.s)]>>
  /\ UNCHANGED <<programa, call>>

NextPremio == LlamarPremio

SpecPremio == InitPremio /\ [][NextPremio]_vars

(***************************************************************************)
(* Saving the parsed draws (actualizar_datos.py, descargar_historicos.py)  *)
(* and loading the file with cargar.  A text is the sequence of its        *)
(* character codes; fecha is the text YYYY-MM-DD the parsers build.        *)
(***************************************************************************)
Cifra(k) == 48 + k

\* str(n).zfill(2)
zfill2(k) == IF k < 10 THEN <<Cifra(0), Cifra(k)>>
             ELSE <<Cifra(k \div 10), Cifra(k % 10)>>

\* f"{año}-{mes.zfill(2)}-{dia.zfill(2)}" for a date <<año, mes, dia>>
Iso(f) ==
  <<Cifra(f[1] \div 1000), Cifra((f[1] \div 100) % 10),
    Cifra((f[1] \div 10) % 10), Cifra(f[1] % 10), 45>>
    \o zfill2(f[2]) \o <<45>> \o zfill2(f[3])

\* a < b for two str
RECURSIVE MenorCadena(_, _)
MenorCadena(a, b) ==
  IF b = << >> THEN FALSE
  ELSE IF a = << >> THEN TRUE
  ELSE IF a[1] # b[1] THEN a[1] < b[1]
  ELSE MenorCadena(Tail(a), Tail(b))

\* vistos=set(); unicos=[r for r in datos if its fecha was not seen before]
RECURSIVE Unicos(_, _)
Unicos(datos, vistos) ==
  IF datos = << >> THEN << >>
  ELSE IF Head(datos).fecha \in vistos THEN Unicos(Tail(datos), vistos)
  ELSE <<Head(datos)>>
         \o Unicos(Tail(datos), vistos \cup {Head(datos).fecha})

\* the place of reg in a list sorted by fecha, newest first, after the
\* entries that do not compare below it (the sort is stable)
RECURSIVE InsertarDesc(_, _)
InsertarDesc(reg, lst) ==
  IF lst = << >> THEN <<reg>>
  ELSE IF MenorCadena(Head(lst).fecha, reg.fecha) THEN <<reg>> \o lst
  ELSE <<Head(lst)>> \o InsertarDesc(reg, Tail(lst))

\* InsertarDesc for a sort without reverse=True
RECURSIVE InsertarAsc(_, _)
InsertarAsc(reg, lst) ==
  IF lst = << >> THEN <<reg>>
  ELSE IF MenorCadena(reg.fecha, Head(lst).fecha) THEN <<reg>> \o lst
  ELSE <<Head(lst)>> \o InsertarAsc(reg, Tail(lst))

RECURSIVE OrdenarCon(_, _, _)
OrdenarCon(Insertar(_, _), res, lst) ==
  IF lst = << >> THEN res
  ELSE OrdenarCon(Insertar, Insertar(Head(lst), res), Tail(lst))

\* the sort by fecha without reverse=True
OrdenarPorFecha_ascendente(lst) == OrdenarCon(InsertarAsc, << >>, lst)

\* lst.sort(key=lambda x: x['fecha'], reverse=True)
OrdenarPorFecha(lst) == OrdenarCon(InsertarDesc, << >>, lst)

\* r['numeros'][:6] if len(r['numeros'])>=6
\*   else r['numeros']+[0]*(6-len(r['numeros']))
SeisNumeros(numeros) ==
  IF Len(numeros) >= 6 THEN Take(numeros, 6)
  ELSE numeros \o [p \in 1..(6 - Len(numeros)) |-> 0]

\* the row written for the draw reg: fecha, n1..n6, complementario, reintegro
FilaEscrita(reg, nums) ==
  [fecha |-> reg.fecha,
   n |-> Lista([p \in 1..6 |-> Entero(nums[p])]),
   complementario |-> Entero(reg.complementario),
   reintegro |-> Entero(reg.reintegro)]

\* the rows guardar_primitiva_bonoloto writes for a non-empty datos
guardar_primitiva_bonoloto(datos) ==
  LET unicos == OrdenarPorFecha(Unicos(datos, {}))
  IN  Lista([p \in 1..Len(unicos) |->
               FilaEscrita(unicos[p], SeisNumeros(unicos[p].numeros))])

\* the rows guardar_csv writes for a non-empty resultados of primitiva or
\* bonoloto
guardar_csv(resultados) ==
  LET unicos == Unicos(OrdenarPorFecha(resultados), {})
  IN  Lista([p \in 1..Len(unicos) |->
               FilaEscrita(unicos[p], unicos[p].numeros)])

\* the dates of the draws: around the turn of a year, with days of one and
\* two digits
Fechas == {<<1999, 12, 31>>, <<2000, 1, 2>>, <<2000, 1, 10>>, <<2000, 2, 1>>}

\* f is a date before g
Antes(f, g) ==
  \/ f[1] < g[1]
  \/ f[1] = g[1] /\ f[2] < g[2]
  \/ f[1] = g[1] /\ f[2] = g[2] /\ f[3] < g[3]

\* the draws a parser may give for one date: parse_csv_loterias keeps a row
\* with 5 numbers, the parser of descargar_historicos only rows with 6
Parseados(fn) ==
  {[fecha |-> Iso(f), numeros |-> Pool[2], complementario |-> 8,
    reintegro |-> f[3] % 10] : f \in Fechas}
  \cup {[fecha |-> Iso(f),
          numeros |-> IF fn = "guardar_csv" THEN Pool[3]
                      ELSE Take(Pool[3], 5),
          complementario |-> 0, reintegro |-> 0] : f \in Fechas}

Guardados == {"guardar_primitiva_bonoloto", "guardar_csv"}

\* the lists of at most MaxDatos parsed draws, in any order, dates repeated
ListasDe(fn) ==
  UNION {[1..k -> Parseados(fn)] : k \in 0..MaxDatos}

InitGuardar ==
  /\ Reposo
  /\ call \in UNION {{[fn |-> f, datos |-> Lista(d)] : d \in ListasDe(f)} :
                       f \in Guardados}
  /\ ret = << >>

\* the save: nothing is written for an empty list
Guardar ==
  /\ pc = "llamada"
  /\ IF call.datos = << >>
     THEN /\ pc' = "sin_datos"
          /\ ret' = <<0>>
          /\ UNCHANGED archivo
     ELSE /\ archivo' = IF call.fn = "guardar_csv"
                        THEN guardar_csv(call.datos)
                        ELSE guardar_primitiva_bonoloto(call.datos)
          /\ ret' = <<Len(archivo')>>
          /\ pc' = "guardado"
  /\ UNCHANGED <<sorteos, metodo, n_eval, reps, i, total_ac, paso, llamadas,
                 gastado, ganado, conteo, call, otros>>

\* cargar on the file of the save; there is no file when nothing was written
CargarGuardado ==
  /\ pc \in {"guardado", "sin_datos"}
  /\ IF pc = "guardado"
     THEN /\ sorteos' = cargar(archivo)
          /\ pc' = "cargado"
     ELSE /\ pc' = "error"
          /\ UNCHANGED sorteos
  /\ UNCHANGED <<archivo, metodo, n_eval, reps, i, total_ac, paso, llamadas,
                 gastado, ganado, conteo, call, ret, otros>>

NextGuardar == Guardar \/ CargarGuardado

SpecGuardar == InitGuardar /\ [][NextGuardar]_vars

(***************************************************************************)
(* Properties of the selectors (SpecSel).                                  *)
(***************************************************************************)
\* the call of the selector has returned
Devuelto == Len(ret) = 1

\* lst holds k pairwise-distinct integers of 1..49
Seleccion(lst, k) ==
  /\ Len(lst) = k
  /\ \A p \in DOMAIN lst : lst[p] \in Nums
  /\ \A p, q \in DOMAIN lst : p # q => lst[p] # lst[q]

\* every draw of hist has the same main numbers
Constante(hist) ==
  /\ Len(hist) > 0
  /\ \A p \in DOMAIN hist : hist[p].numeros = hist[1].numeros

\* C1: every selector, called with the default n=6 on a history of any
\* length, returns exactly 6 pairwise-distinct integers of 1..49.
C1_SeleccionValida ==
  (Devuelto /\ call.n = 6) => Seleccion(ret[1], 6)

\* a selector with structural refinement has returned on 30 draws or more
C1_Witness ==
  /\ Devuelto /\ call.n = 6
  /\ call.fn = "metodo_ensemble_v3"
  /\ Len(call.hist) >= 30
  /\ Seleccion(ret[1], 6)

\* C9: on a non-empty history whose draws all have the same numbers S,
\* metodo_frecuencias and metodo_calientes return exactly S and
\* metodo_debidos returns a set disjoint from S.
C9_HistoriaConstante ==
  (Devuelto /\ call.n = 6 /\ Constante(call.hist)) =>
    /\ call.fn \in {"metodo_frecuencias", "metodo_calientes"} =>
         ret[1] = Sorted(call.hist[1].numeros)
    /\ call.fn = "metodo_debidos" =>
         Range(ret[1]) \cap Range(call.hist[1].numeros) = {}

\* metodo_debidos has returned on a constant history of 44..49
C9_Witness ==
  /\ Devuelto /\ call.n = 6 /\ Constante(call.hist)
  /\ call.fn = "metodo_debidos"
  /\ Len(call.hist) >= 2
  /\ call.hist[1].numeros = <<44, 45, 46, 47, 48, 49>>
  /\ ret[1] = <<1, 2, 3, 4, 5, 6>>

\* C10: metodo_mixto_15_70_15 on fewer than 10 draws returns exactly n
\* pairwise-distinct numbers of 1..49, for the n it was asked for.
C10_FallbackDeTamanoN ==
  (Devuelto /\ call.fn = "metodo_mixto_15_70_15" /\ Len(call.hist) < 10)
    => Seleccion(ret[1], call.n)

\* C17: metodo_rachas_mix_v3 returns a selection on every history: below 30
\* draws it returns what metodo_rachas_mix_v2 returns on the same history
\* (a random sample below 10 draws; neither multi-window score nor
\* refinement), from 30 draws on the refined top 6 of 0.70*momentum +
\* 0.30*acceleration.
C17_RachasV3PorTramos ==
  (Devuelto /\ call.fn = "metodo_rachas_mix_v3") =>
    /\ call.n = 6 => Seleccion(ret[1], 6)
    /\ Len(call.hist) < 10 => Range(ret[1]) \in RandomSamples
    /\ Len(call.hist) < 30 =>
         ret[1] \in metodo_rachas_mix_v2(call.hist, call.n)
    /\ (Len(call.hist) >= 30 /\ call.n = 6) =>
         ret[1] = refinar_combinacion(
                    Take(SortedByKey(Neg(IntKey(ScoreMomentum(call.hist)))), 6),
                    call.hist)

\* metodo_rachas_mix_v3 has returned on 29 draws the selection of
\* metodo_rachas_mix_v2, which is not the refined top 6 of the score
C17_Witness ==
  /\ Devuelto /\ call.fn = "metodo_rachas_mix_v3" /\ call.n = 6
  /\ Len(call.hist) = 29
  /\ ret[1] \in metodo_rachas_mix_v2(call.hist, 6)
  /\ ret[1] # refinar_combinacion(
                Take(SortedByKey(Neg(IntKey(ScoreMomentum(call.hist)))), 6),
                call.hist)

\* the draws of hist that hold the number a
Apariciones(hist, a) == {p \in DOMAIN hist : a \in Range(hist[p].numeros)}

\* the draws elapsed since the last occurrence of a, the length of hist for
\* a number never seen
Transcurridos(hist, a) ==
  IF Apariciones(hist, a) = {} THEN Len(hist)
  ELSE Cardinality({p \in DOMAIN hist :
                     \A q \in Apariciones(hist, a) : q < p})

\* C21: metodo_debidos scores a number by the draws elapsed since its last
\* occurrence and a never-seen number by the length of the history, which is
\* above the score of every seen number; it returns the 6 numbers of
\* largest score, ties toward the smaller number.
C21_MasDebidos ==
  (Devuelto /\ call.fn = "metodo_debidos" /\ call.n = 6) =>
    /\ \A a, b \in Nums :
         (Apariciones(call.hist, a) # {} /\ Apariciones(call.hist, b) = {})
           => Transcurridos(call.hist, a) < Transcurridos(call.hist, b)
    /\ Seleccion(ret[1], 6)
    /\ \A a \in Range(ret[1]) : \A b \in Nums \ Range(ret[1]) :
         \/ Transcurridos(call.hist, b) < Transcurridos(call.hist, a)
         \/ /\ Transcurridos(call.hist, b) = Transcurridos(call.hist, a)
            /\ a < b

\* metodo_debidos has returned on a history with seen and never-seen
\* numbers, leaving out a number that ties with one it returns
C21_Witness ==
  /\ Devuelto /\ call.fn = "metodo_debidos" /\ call.n = 6
  /\ Len(call.hist) >= 10
  /\ \E a \in Nums : Apariciones(call.hist, a) # {}
  /\ \E a \in Range(ret[1]) : \E b \in Nums \ Range(ret[1]) :
       /\ Apariciones(call.hist, b) = {}
       /\ Transcurridos(call.hist, b) = Transcurridos(call.hist, a)
       /\ a < b

\* the k numbers of highest frequency in the last 12 draws of hist, ties
\* toward the smaller number
MasCalientes(hist, k) ==
  Range(Take(SortedByKey(Neg(Frec(Recientes(hist, 12)))), k))

\* C25: on a history of at least 10 draws the selection of
\* metodo_rachas_mix_v2 holds the 3 hottest numbers, those of highest
\* frequency in the trailing 12-draw window (ties toward the smaller
\* number).
C25_TresMasCalientes ==
  (Devuelto /\ call.fn = "metodo_rachas_mix_v2" /\ call.n = 6
     /\ Len(call.hist) >= 10) =>
    MasCalientes(call.hist, 3) \subseteq Range(ret[1])

(***************************************************************************)
(* Properties of norm (SpecNorm).                                          *)
(***************************************************************************)
\* every score of d is the same
Iguales(d) == \A j, k \in DOMAIN d : d[j] = d[k]

\* C8: norm maps every score into [0,1]; when all the scores are equal
\* the result is 0 for every key (no division by zero); when they are not,
\* the keys of the minimum score map to 0.
C8_NormEnUnidad ==
  Devuelto =>
    /\ DOMAIN ret[1] = DOMAIN call.d
    /\ \A k \in DOMAIN ret[1] :
         RLeq(RInt(0), ret[1][k]) /\ RLeq(ret[1][k], RInt(1))
    /\ Iguales(call.d) => \A k \in DOMAIN ret[1] : ret[1][k] = RInt(0)
    /\ ~Iguales(call.d) =>
         \A k \in DOMAIN call.d :
           (\A j \in DOMAIN call.d : RLeq(call.d[k], call.d[j]))
             => ret[1][k] = RInt(0)

\* norm has returned on a map whose scores are all 1/3
C8_Witness ==
  /\ Devuelto
  /\ \A k \in DOMAIN call.d : call.d[k] = <<1, 3>>
  /\ \A k \in DOMAIN ret[1] : ret[1][k] = RInt(0)

(***************************************************************************)
(* Properties of refinar_combinacion (SpecRef).                            *)
(***************************************************************************)
\* C7: refinar_combinacion returns a selection of the cardinality of its
\* input, pairwise distinct and within 1..49, that differs from the input
\* in at most one number removed and one added.
C7_UnSoloCambio ==
  Devuelto =>
    /\ Seleccion(ret[1], Len(call.combo))
    /\ Cardinality(Range(call.combo) \ Range(ret[1])) <= 1
    /\ Cardinality(Range(ret[1]) \ Range(call.combo)) <= 1

\* a selection of sum above suma_max came back with its largest number
\* replaced
C7_Witness ==
  /\ Devuelto
  /\ SumSeq(call.combo) > suma_max
  /\ MaxOfSeq(call.combo) \notin Range(ret[1])
  /\ Cardinality(Range(ret[1]) \ Range(call.combo)) = 1

\* refinar_combinacion has returned on a history of 10 draws or more
Refinado == Devuelto /\ Len(call.hist) >= 10

\* C18: on a history of at least 10 draws the selection returned by
\* refinar_combinacion has its sum within [suma_min, suma_max].
C18_SumaEnRango ==
  Refinado => /\ suma_min <= SumSeq(ret[1])
              /\ SumSeq(ret[1]) <= suma_max

\* the sum of combo is above suma_max
Alta(combo) == SumSeq(combo) > suma_max

\* the extreme of a combo whose sum is out of range
Extremo(combo) ==
  IF Alta(combo) THEN MaxOfSeq(combo) ELSE MinOfSeq(combo)

\* the midpoint of the range 1..maxNum
Medio == (1 + maxNum) \div 2

\* sel is combo with its extreme replaced by the most frequent number of
\* hist among the unused numbers on the side lado
CambiaExtremo(combo, sel, hist, lado(_)) ==
  /\ Extremo(combo) \notin Range(sel)
  /\ \E a \in Range(sel) \ Range(combo) :
       /\ Range(sel) = (Range(combo) \ {Extremo(combo)}) \cup {a}
       /\ lado(a)
       /\ \A b \in Nums \ Range(combo) :
            lado(b) => Frec(hist)[b] <= Frec(hist)[a]

\* the sum of the selection handed to refinar_combinacion is out of range
FueraDeRango ==
  /\ Refinado
  /\ SumSeq(call.combo) < suma_min \/ SumSeq(call.combo) > suma_max

\* C19 as stated: the number added is on the side of the midpoint of 1..49
\* (the low half when the sum was too high, the high half when too low).
C19_LadoDelPuntoMedio ==
  FueraDeRango =>
    CambiaExtremo(call.combo, ret[1], call.hist,
                  LAMBDA a : IF Alta(call.combo) THEN a < Medio
                             ELSE a > Medio)

\* C19: when the sum is out of range the swap removes the maximum (sum
\* above suma_max) or the minimum (sum below suma_min) and adds the unused
\* number of highest all-time frequency among those below the removed
\* maximum, respectively above the removed minimum.
C19_LadoDelExtremo ==
  FueraDeRango =>
    CambiaExtremo(call.combo, ret[1], call.hist,
                  LAMBDA a : IF Alta(call.combo) THEN a < Extremo(call.combo)
                             ELSE a > Extremo(call.combo))

\* a selection of sum below suma_min came back with its minimum replaced by
\* a number of the low half
C19_Witness ==
  /\ FueraDeRango /\ ~Alta(call.combo)
  /\ MinOfSeq(call.combo) \notin Range(ret[1])
  /\ \E a \in Range(ret[1]) \ Range(call.combo) :
       a > MinOfSeq(call.combo) /\ a < Medio

Lugar(s) == CHOOSE p \in DOMAIN sorteos : sorteos[p].fecha = s.fecha

\* a draw that no history holds
Otro(fecha) == [fecha |-> fecha, numeros |-> <<8, 9, 10, 11, 13, 41>>,
                reintegro |-> 0]

\* the histories that agree with sorteos before place p and still have a
\* draw at p: the draw at p replaced, every draw from p on replaced, the
\* draws after p removed
Alteradas(p) ==
  {[q \in 1..Len(sorteos) |-> IF q = p THEN Otro(q) ELSE sorteos[q]],
   [q \in 1..Len(sorteos) |-> IF q >= p THEN Otro(q) ELSE sorteos[q]],
   SubSeq(sorteos, 1, p)}

\* C2: every step of backtest and of simular_con_reintegros hands the
\* selector or strategy exactly the draws before the draw it scores; the
\* prediction of a deterministic selector for that draw is the same on
\* every history that differs only from that draw on.
C2_SinMirarAdelante ==
  paso.tipo \in {"omitido", "evaluado", "sim"} =>
    /\ \E p \in DOMAIN sorteos :
         sorteos[p] = paso.s /\ paso.h = SubSeq(sorteos, 1, p - 1)
    /\ (paso.tipo = "evaluado"
          /\ Cardinality(Llamar(metodo, paso.h, 6)) = 1) =>
         \A alt \in Alteradas(Lugar(paso.s)) :
           \A r \in DOMAIN paso.preds :
             Llamar(metodo, Prefijo(alt, Lugar(paso.s) - 1), 6)
               = {paso.preds[r]}

\* a deterministic selector has predicted a draw that is not the last one
C2_Witness ==
  /\ paso.tipo = "evaluado"
  /\ metodo = "metodo_ensemble_v2"
  /\ Len(paso.h) >= 10
  /\ Lugar(paso.s) < Len(sorteos)
  /\ paso.h = SubSeq(sorteos, 1, Lugar(paso.s) - 1)

\* max(val of every ticket), 0 when no ticket wins
MayorPremio(boletos, s) ==
  LET vs == {PremioBoleto(boletos[p], s)[2] : p \in DOMAIN boletos} \cup {0}
  IN  CHOOSE x \in vs : \A w \in vs : w <= x

\* C3: simular_con_reintegros starts the winnings at 0, adds for each draw
\* the largest prize value among the tickets of that draw (0 when none
\* wins), never their sum, and returns that total.
C3_MayorPremioPorSorteo ==
  [][/\ (pc = "cargado" /\ pc' = "sim") => ganado' = 0
     /\ (pc = "sim" /\ pc' = "sim") =>
          /\ paso'.mejor_val = MayorPremio(paso'.boletos, paso'.s)
          /\ ganado' = ganado + MayorPremio(paso'.boletos, paso'.s)
     /\ (pc = "sim" /\ pc' = "fin") => paso'.ganado = ganado]_vars

\* two tickets of one draw have won prizes of different positive values
C3_Witness ==
  /\ paso.tipo = "sim"
  /\ \E p, q \in DOMAIN paso.boletos :
       /\ PremioBoleto(paso.boletos[p], paso.s)[2] > 0
       /\ PremioBoleto(paso.boletos[q], paso.s)[2]
            > PremioBoleto(paso.boletos[p], paso.s)[2]
       /\ paso.mejor_val = PremioBoleto(paso.boletos[q], paso.s)[2]
  /\ ganado > paso.mejor_val

\* C4: with a portfolio of T tickets the cost after j draws is T*j; the
\* cost returned for n_eval draws (n_eval within the history) is T*n_eval
\* and the balance returned is the winnings minus the cost.
C4_CosteTporN ==
  /\ pc = "sim" => gastado = metodo.T * (i - (Len(sorteos) - n_eval))
  /\ paso.tipo = "resultado_sim" =>
       /\ n_eval <= Len(sorteos) => paso.gastado = metodo.T * n_eval
       /\ paso.balance = paso.ganado - paso.gastado

\* a run of 3 draws with 2 tickets each has returned a cost of 6
C4_Witness ==
  /\ paso.tipo = "resultado_sim"
  /\ metodo.T = 2 /\ n_eval = 3 /\ n_eval <= Len(sorteos)
  /\ paso.gastado = 6
  /\ paso.ganado > 0

\* C5: a step of backtest on a draw whose prefix is empty goes on to the
\* next draw: no call of the selector, no error, no bucket of the
\* histogram incremented.
C5_PrefijoVacioOmitido ==
  [][(/\ pc = "backtest" /\ i < Len(sorteos)
      /\ PyIndex(sorteos, i) # 0
      /\ Prefijo(sorteos, i) = << >>) =>
       /\ pc' = "backtest"
       /\ i' = i + 1
       /\ llamadas' = llamadas
       /\ total_ac' = total_ac]_vars

\* the first draw of the history was skipped and the next one evaluated
C5_Witness ==
  /\ pc = "backtest"
  /\ paso.tipo = "evaluado"
  /\ Len(paso.h) = 1
  /\ n_eval = Len(sorteos)
  /\ SumSeq(total_ac) = 1
  /\ llamadas = reps

\* the step of backtest at i scores a draw with a non-empty prefix
PasoEvaluado ==
  /\ pc = "backtest" /\ i < Len(sorteos)
  /\ PyIndex(sorteos, i) # 0
  /\ Prefijo(sorteos, i) # << >>

\* C22: an evaluated step of backtest increments exactly one bucket of the
\* histogram by one, whatever reps; its index is the maximum over the reps
\* trials of the size of the intersection between the prediction and the
\* main numbers of the draw, within 0..6.
C22_UnCuboPorPaso ==
  [][PasoEvaluado =>
       /\ Len(paso'.preds) = reps
       /\ paso'.s = sorteos[PyIndex(sorteos, i)]
       /\ \E k \in 0..6 :
            /\ k = Mayor({Aciertos(paso'.preds[r], paso'.s) :
                            r \in DOMAIN paso'.preds})
            /\ total_ac' = [total_ac EXCEPT ![k + 1] = @ + 1]
            /\ SumSeq(total_ac') = SumSeq(total_ac) + 1]_vars

\* a step with two trials of different hit counts, the better one first,
\* has incremented the bucket of the better one
C22_Witness ==
  /\ paso.tipo = "evaluado" /\ reps = 2
  /\ Aciertos(paso.preds[1], paso.s) > Aciertos(paso.preds[2], paso.s)
  /\ paso.mejor = Aciertos(paso.preds[1], paso.s)
  /\ total_ac[paso.mejor + 1] >= 1

\* C26: the pooled count of category R is the number of simulated draws in
\* which the portfolio hit the bonus digit, so it is at most the number of
\* draws simulated; each draw adds at most one to the pooled counts.
C26_UnaPorSorteo ==
  paso.tipo \in {"sim", "resultado_sim"} =>
    /\ conteo[Cat("R")] <= llamadas
    /\ SumSeq(conteo) <= llamadas

\* C29: for every n and every history backtest scores each draw at most
\* once and only draws with a non-empty prefix: it raises no error and the
\* total of the histogram is min(n, len(sorteos) - 1), 0 for an empty
\* history.
C29_TotalDelHistograma ==
  Len(total_ac) = 7 =>
    /\ pc # "error"
    /\ paso.tipo = "resultado" =>
         SumSeq(total_ac) = Min2(n_eval, Max2(Len(sorteos) - 1, 0))

\* once loaded, the history and the file are left as they are by every
\* step of backtest and of simular_con_reintegros
HistoriaIntacta ==
  [][pc # "inicio" => sorteos' = sorteos /\ archivo' = archivo]_vars

\* the main numbers of a row: 6 pairwise-distinct integers of 1..49
FilaValida(f) ==
  /\ \A p \in 1..6 : f.n[p].t = "int" /\ f.n[p].v \in Nums
  /\ \A p, q \in 1..6 : p # q => f.n[p] # f.n[q]

\* C6: loading a file with a row whose main numbers are not 6
\* pairwise-distinct integers of 1..49 ends in an error, before any step.
C6_FilaInvalidaRechazada ==
  (\E p \in DOMAIN archivo : ~FilaValida(archivo[p]))
    => pc \in {"inicio", "error"}

\* the vote weight each number receives from one voter's list
PesoVoto(top, tope) == VotosRango([a \in Nums |-> 0], top, tope)

\* the length of the frequency voter's list in the ensemble that runs
TopeVoto(fn, hist) ==
  IF fn = "metodo_ensemble_v3" /\ Len(hist) >= 30 THEN 20 ELSE 15

PesoSegunFrec(frec, peso, top) ==
  \A a, b \in Range(top) : frec[a] > frec[b] => peso[a] >= peso[b]

\* C12: in metodo_ensemble_v2 and in the frequency voter of
\* metodo_ensemble_v3, a number of the voter's list with a higher score
\* (all-time frequency) receives at least the vote weight of a number of
\* the list with a lower score.
C12_MejorRangoMasPeso ==
  (/\ Devuelto
   /\ call.fn \in {"metodo_ensemble_v2", "metodo_ensemble_v3"}
   /\ Len(call.hist) >= 10)
  => \A top \in metodo_frecuencias(call.hist, TopeVoto(call.fn, call.hist)) :
       PesoSegunFrec(Frec(call.hist),
                     PesoVoto(top, TopeVoto(call.fn, call.hist)), top)

(***************************************************************************)
(* Properties of two calls of one selector (SpecDos).                      *)
(***************************************************************************)
\* C11: every selector other than metodo_aleatorio, called twice on the
\* same history of any length, returns the same selection both times.
C11_SelectorDeterminista ==
  (Len(ret) = 2 /\ call.fn # "metodo_aleatorio") => ret[1] = ret[2]

\* the same, for histories of at least 12 draws only
Determinista12 ==
  (Len(ret) = 2 /\ call.fn # "metodo_aleatorio" /\ Len(call.hist) >= 12)
    => ret[1] = ret[2]

\* two calls of a first-generation voting selector on 10 or 11 draws differ
Difieren1011 ==
  /\ Len(ret) = 2 /\ ret[1] # ret[2]
  /\ call.fn \in {"metodo_ensemble", "metodo_alta_confianza"}
  /\ Len(call.hist) \in {10, 11}

\* sel takes the numbers by participation: those that reach umbral first,
\* then the others, never leaving out a number with more participation
\* than one it takes
Preferidos(sel, cnt, umbral) ==
  /\ Seleccion(sel, 6)
  /\ Cardinality({a \in Nums : cnt[a] >= umbral}) >= 6
       => \A p \in DOMAIN sel : cnt[sel[p]] >= umbral
  /\ Cardinality({a \in Nums : cnt[a] >= umbral}) < 6
       => {a \in Nums : cnt[a] >= umbral} \subseteq Range(sel)
  /\ \A a \in Range(sel) : \A b \in Nums \ Range(sel) : cnt[b] <= cnt[a]

PreferidosDe(sel, cnt) ==
  Luego(cnt, sel = ElegirPorConteo(cnt, 6, 3) /\ Preferidos(sel, cnt, 3))

\* C16: on a history of at least 10 draws metodo_alta_confianza returns 6
\* numbers chosen by participation count over its five candidate sets: all
\* of them reach the threshold 3 when at least 6 numbers do, otherwise every
\* number that reaches it is returned, and no number left out has a higher
\* count than a number returned.
C16_ConsensoPorParticipacion ==
  (call.fn = "metodo_alta_confianza" /\ Len(call.hist) >= 10) =>
    \A p \in DOMAIN ret :
      \E sets \in ConjuntosAC(call.hist) : PreferidosDe(ret[p], Conteo(sets))

\* fewer than 6 numbers reach the threshold and the selection is filled
C16_Witness ==
  /\ call.fn = "metodo_alta_confianza" /\ Len(call.hist) >= 12
  /\ Len(ret) = 2
  /\ \E sets \in ConjuntosAC(call.hist) :
       /\ Cardinality({a \in Nums : Conteo(sets)[a] >= 3}) \in 1..5
       /\ PreferidosDe(ret[1], Conteo(sets))

(***************************************************************************)
(* Properties of the worker pool (SpecPar).                                *)
(***************************************************************************)
\* the iterations whose mejor has been added (or that were skipped)
Hechos ==
  {k \in Pasos(sorteos, n_eval) :
     k \notin pendientes /\ \A w \in Obreros :
       obreros[w] = Libre \/ obreros[w].i # k}

\* the histogram of a set of iterations, each evaluated on the history alone
RECURSIVE HistogramaDe(_)
HistogramaDe(S) ==
  IF S = {} THEN <<0, 0, 0, 0, 0, 0, 0>>
  ELSE LET k == CHOOSE x \in S : \A y \in S : x <= y
       IN  IF Prefijo(sorteos, k) = << >> THEN HistogramaDe(S \ {k})
           ELSE Incrementar(HistogramaDe(S \ {k}),
                  CHOOSE m \in MejoresPaso(sorteos, metodo, reps, k) : TRUE)

\* C13: for a deterministic selector, whatever the order in which the workers
\* take, evaluate and add the iterations, the histogram is at every moment
\* the one of the iterations added so far, each evaluated on the history
\* alone, and the final histogram, mean and percentages are those of the
\* sequential run.
C13_PasosIndependientes ==
  pc \in {"paralelo", "fin"} =>
    /\ total_ac = HistogramaDe(Hechos)
    /\ pc = "fin" => paso = ret[1]

\* a later iteration is already in the histogram while a worker still holds
\* the evaluated mejor of an earlier one
C13_Witness ==
  /\ pc = "paralelo"
  /\ \E w \in Obreros : \E k \in Hechos :
       /\ obreros[w].tipo = "evaluado"
       /\ obreros[w].i < k
       /\ Prefijo(sorteos, k) # << >>
       /\ total_ac # <<0, 0, 0, 0, 0, 0, 0>>

(***************************************************************************)
(* Properties of the ticket strategies (SpecEstr).                         *)
(***************************************************************************)
\* C14: every strategy returns exactly 15 tickets, whatever the history
\* (empty, shorter than 30 draws, or longer).
C14_QuinceBoletos ==
  pc = "fin" => Len(ret[1]) = 15

\* estrategia_mejor_combo_10R has returned on the empty history
C14_Witness ==
  /\ pc = "fin"
  /\ metodo = "estrategia_mejor_combo_10R"
  /\ call.hist = << >>
  /\ Len(ret[1]) = 15
  /\ Len(chosen) = max_t

\* the bonus digits that are on exactly k tickets of the portfolio
EnBoletos(boletos, k) ==
  {r \in 0..9 : Cardinality({p \in DOMAIN boletos : boletos[p][2] = r}) = k}

\* the digit a is ahead of b by frequency in hist, ties toward the smaller
MasFrecuente(hist, a, b) ==
  \/ VecesReintegro(hist, a) > VecesReintegro(hist, b)
  \/ VecesReintegro(hist, a) = VecesReintegro(hist, b) /\ a < b

\* C23: estrategia_frecuencia_interleaved puts each of the 5 most frequent
\* bonus digits of the history (ties toward the smaller digit) on exactly 2
\* of its 15 tickets and each of the other 5 on exactly 1; the 10 digits
\* 0..9 are all covered, whatever the history.
C23_DosYUno ==
  (pc = "fin" /\ metodo = "estrategia_frecuencia_interleaved") =>
    /\ Len(ret[1]) = 15
    /\ Cardinality(EnBoletos(ret[1], 2)) = 5
    /\ Cardinality(EnBoletos(ret[1], 1)) = 5
    /\ EnBoletos(ret[1], 2) \cup EnBoletos(ret[1], 1) = 0..9
    /\ \A a \in EnBoletos(ret[1], 2) : \A b \in EnBoletos(ret[1], 1) :
         MasFrecuente(call.hist, a, b)

\* the strategy has returned on a history where a digit on 2 tickets is
\* strictly more frequent than a digit on 1 ticket
C23_Witness ==
  /\ pc = "fin" /\ metodo = "estrategia_frecuencia_interleaved"
  /\ Len(call.hist) = MaxLen
  /\ \E a \in EnBoletos(ret[1], 2) : \E b \in EnBoletos(ret[1], 1) :
       VecesReintegro(call.hist, a) > VecesReintegro(call.hist, b)

\* the bonus digits of the portfolio
Digitos(boletos) == {boletos[p][2] : p \in DOMAIN boletos}

\* C24: the 15 tickets of estrategia_actual carry exactly 3 distinct bonus
\* digits, each on exactly 5 tickets, whatever the history: the 3 most
\* frequent bonus digits of the history, or 7, 3, 1 when it is empty.
C24_TresReintegros ==
  (pc = "fin" /\ metodo = "estrategia_actual") =>
    /\ Cardinality(Digitos(ret[1])) = 3
    /\ EnBoletos(ret[1], 5) = Digitos(ret[1])
    /\ call.hist = << >> => Digitos(ret[1]) = {7, 3, 1}
    /\ call.hist # << >> =>
         \A a \in Digitos(ret[1]) : \A b \in (0..9) \ Digitos(ret[1]) :
           VecesReintegro(call.hist, a) >= VecesReintegro(call.hist, b)

\* the strategies that give each combination of greedy_combos one ticket
UnBoletoPorCombo ==
  {"estrategia_actual", "estrategia_cubre5reintegros",
   "estrategia_cubre10reintegros", "estrategia_frecuencia_interleaved"}

\* the 3-subsets covered by the first k combinations chosen
Cubiertas(k) == UNION {cov(chosen[q]) : q \in 1..k}

\* C27: greedy_combos never takes the same combination twice and every
\* combination it appends covers a 3-subset the earlier ones do not cover;
\* the 15 tickets of estrategia_actual, estrategia_cubre5reintegros,
\* estrategia_cubre10reintegros and estrategia_frecuencia_interleaved have
\* pairwise-distinct combinations, each 6 of the 17 numbers of candidatos.
C27_CombosDistintos ==
  /\ \A p, q \in DOMAIN chosen : p # q => chosen[p] # chosen[q]
  /\ \A p \in DOMAIN chosen : ~(cov(chosen[p]) \subseteq Cubiertas(p - 1))
  /\ sc = tsubs \ Cubiertas(Len(chosen))
  /\ (pc = "fin" /\ metodo \in UnBoletoPorCombo) =>
       /\ Len(ret[1]) = 15
       /\ Cardinality(Range(candidatos(call.hist))) = 17
       /\ \A p \in DOMAIN ret[1] :
            /\ Cardinality(Range(ret[1][p][1])) = 6
            /\ Range(ret[1][p][1]) \subseteq Range(candidatos(call.hist))
       /\ \A p, q \in DOMAIN ret[1] : p # q => ret[1][p][1] # ret[1][q][1]

\* estrategia_cubre5reintegros has returned 15 tickets on a history of 30
\* draws, whose candidates are not 1..17
C27_Witness ==
  /\ pc = "fin" /\ metodo = "estrategia_cubre5reintegros"
  /\ Len(call.hist) >= 30
  /\ Range(candidatos(call.hist)) # 1..17
  /\ Len(chosen) = max_t
  /\ \A p, q \in DOMAIN ret[1] : p # q => ret[1][p][1] # ret[1][q][1]

\* the portfolio of estrategia_cubre10reintegros has met a draw
Cubre10Escrutado ==
  pc = "escrutado" /\ metodo = "estrategia_cubre10reintegros"

\* a ticket with the bonus digit of the draw has all its 6 numbers: the
\* category BOTE, whose value is 0
ConBote(boletos, s) ==
  \E p \in DOMAIN boletos : PremioBoleto(boletos[p], s)[1] = "BOTE"

\* C28 as stated: with the portfolio of estrategia_cubre10reintegros every
\* draw adds at least 1 to the winnings.
C28_AlMenosUno ==
  Cubre10Escrutado => paso.mejor_val >= 1 /\ ganado >= llamadas

\* C28: the 15 tickets of estrategia_cubre10reintegros carry the ten digits
\* 0..9, and a draw adds at least 1 to the winnings unless a ticket with
\* its bonus digit has all its 6 numbers (the category BOTE, valued 0).
C28_AlMenosUnoSinBote ==
  Cubre10Escrutado =>
    /\ Digitos(ret[1]) = 0..9
    /\ \E p \in DOMAIN ret[1] : ret[1][p][2] = paso.s.reintegro
    /\ ~ConBote(ret[1], paso.s) =>
         paso.mejor_val >= 1 /\ ganado >= llamadas

\* the draw has the bonus digit of a single ticket, which hits fewer than 3
\* numbers: the draw adds the value 1 of the category R
C28_Witness ==
  /\ Cubre10Escrutado
  /\ paso.s.reintegro >= 5
  /\ paso.mejor_cat = "R" /\ paso.mejor_val = 1
  /\ ganado = 1

(***************************************************************************)
(* Properties of premio (SpecPremio).                                      *)
(***************************************************************************)
\* the category and value the prize table gives
Tabla(ac_n, ac_r) ==
  CASE ac_n = 6 -> <<IF ac_r THEN "BOTE" ELSE "2a", 0>>
    [] ac_n = 5 -> <<IF ac_r THEN "3a" ELSE "4a", IF ac_r THEN 20000 ELSE 1500>>
    [] ac_n = 4 -> <<"5a", 48>>
    [] ac_n = 3 -> <<"6a", 8>>
    [] ac_n \in 0..2 -> IF ac_r THEN <<"R", 1>> ELSE <<"None", 0>>

\* C15: premio returns a category and a value for every number of hits 0..6
\* and every reintegro outcome: 6 hits BOTE / 2a at value 0, 5 hits 20000
\* with the reintegro and 1500 without, 4 hits 48, 3 hits 8, fewer than 3
\* hits R at value 1 with the reintegro and no category at value 0 without.
C15_TablaDePremios ==
  Len(ret) = 1 =>
    /\ ret[1].ac_n \in 0..6 /\ ret[1].ac_r \in BOOLEAN
    /\ ret[1].premio = Tabla(ret[1].ac_n, ret[1].ac_r)

\* five hits and the reintegro: 20000
C15_Witness ==
  /\ Len(ret) = 1
  /\ ret[1].ac_n = 5 /\ ret[1].ac_r
  /\ ret[1].premio[2] = 20000

(***************************************************************************)
(* Properties of saving and loading (SpecGuardar).                         *)
(***************************************************************************)
\* the draw at place p of lst is of a date before the draw at place q
FechaAntes(lst, p, q) ==
  \E f, g \in Fechas :
    /\ lst[p].fecha = Iso(f) /\ lst[q].fecha = Iso(g)
    /\ Antes(f, g)

\* C20: the history loaded by cargar from the file written by
\* guardar_primitiva_bonoloto or guardar_csv, for any list of parsed draws,
\* is strictly ascending by date, so no two of its draws have the same date.
C20_HistoriaAscendente ==
  pc = "cargado" =>
    \A p, q \in DOMAIN sorteos : p < q => FechaAntes(sorteos, p, q)

\* a list with a repeated date, not in date order, was saved and loaded: the
\* history has its two dates, oldest first
C20_Witness ==
  /\ pc = "cargado"
  /\ Len(call.datos) = MaxDatos /\ Len(sorteos) = 2
  /\ call.datos[1].fecha = call.datos[3].fecha
  /\ FechaAntes(call.datos, 2, 1)
  /\ FechaAntes(sorteos, 1, 2)
====
